---- MODULE Spec2Model ----
(***************************************************************************)
(* Marketplace back end: per-seller order splitting, the seller wallet     *)
(* (ledger) and the withdrawal life cycle.                                 *)
(*                                                                         *)
(* Amounts are integers (rupees); order totals are multiples of 10 so that *)
(* the 10% commission is exact.  Document ids are positions in the order   *)
(* and withdrawal collections, 0 standing for a null reference.  An       *)
(* action is one request handler run from its first statement to its       *)
(* response; in the interleaved specification it is the code between two   *)
(* awaits of a handler.  versions holds the version key (__v) of the       *)
(* wallet documents; only a save that set an element of the transactions   *)
(* array reads it, and it is kept for the interleaved handlers.            *)
(***************************************************************************)
EXTENDS Integers, Sequences, FiniteSets, TLC

VARIABLES orders, products, wallets, withdrawals, now, resp, calls, versions

vars == <<orders, products, wallets, withdrawals, now, resp, calls, versions>>

(***************************************************************************)
(* Bounds of the model                                                     *)
(***************************************************************************)
MaxOrders == 1
MaxWithdrawals == 2
MaxTime == 10
MaxStoredOrders == 2
MaxSold == 2
MaxLedgerOrders == 2
MaxRequests == 2

(***************************************************************************)
(* Program constants                                                       *)
(***************************************************************************)
MinWithdrawal == 100
CommissionPercent == 10
IdempotencyWindow == 5
AmountTolerance == 2

Sellers == {"s1", "s2"}
Users == {"u1"}
Keys == {"none", "k1"}
Discounts == {300}
WithdrawAmounts == {99, 100, 500}
StatusInputs == {"delivered", "cancelled"}
\* which destination details the request carries
Details(accountNumber, ifscCode, upiId, walletNumber) ==
  [accountNumber |-> accountNumber, ifscCode |-> ifscCode,
   upiId |-> upiId, walletNumber |-> walletNumber]
NoDetails == Details(FALSE, FALSE, FALSE, FALSE)
\* payout requests: per method, one with its destination and one without
PayoutInputs ==
  {[method |-> "bank_transfer", details |-> Details(TRUE, TRUE, FALSE, FALSE)],
   [method |-> "bank_transfer", details |-> Details(TRUE, FALSE, TRUE, TRUE)],
   [method |-> "upi", details |-> Details(FALSE, FALSE, TRUE, FALSE)],
   [method |-> "upi", details |-> Details(TRUE, TRUE, FALSE, TRUE)],
   [method |-> "paytm", details |-> Details(FALSE, FALSE, FALSE, TRUE)],
   [method |-> "paytm", details |-> NoDetails],
   [method |-> "phonepe", details |-> Details(FALSE, FALSE, FALSE, TRUE)],
   [method |-> "phonepe", details |-> Details(TRUE, TRUE, TRUE, FALSE)]}

(***************************************************************************)
(* Wallet documents                                                        *)
(***************************************************************************)
Tx(type, amount, description, orderId, withdrawalId, balance, status) ==
  [type |-> type, amount |-> amount, description |-> description,
   orderId |-> orderId, withdrawalId |-> withdrawalId,
   balance |-> balance, status |-> status]

\* no wallet document for the seller
NoWallet ==
  [exists |-> FALSE, balance |-> 0, totalEarnings |-> 0, totalWithdrawn |-> 0,
   pendingWithdrawals |-> 0, transactions |-> <<>>]

\* Wallet.create({seller}) : schema defaults
NewWallet ==
  [exists |-> TRUE, balance |-> 0, totalEarnings |-> 0, totalWithdrawn |-> 0,
   pendingWithdrawals |-> 0, transactions |-> <<>>]

\* schema validators run by save(): min: 0 on the four aggregates
WalletValid(w) ==
  /\ w.balance >= 0
  /\ w.totalEarnings >= 0
  /\ w.totalWithdrawn >= 0
  /\ w.pendingWithdrawals >= 0

\* walletSchema.methods.addTransaction, up to its save(): the entry's balance
\* field is this.balance as read before the update
AddTransaction(w, type, amount, description, orderId) ==
  [w EXCEPT
     !.transactions = Append(@, Tx(type, amount, description, orderId, 0,
                                   w.balance, "completed")),
     !.balance = IF type = "credit" THEN @ + amount ELSE @ - amount,
     !.totalEarnings = IF type = "credit" THEN @ + amount ELSE @,
     !.totalWithdrawn = IF type = "debit" THEN @ + amount ELSE @]

(***************************************************************************)
(* Earnings of an order                                                    *)
(***************************************************************************)
\* a mutant: the commission is 5% of the total
CommissionFivePercent(totalPrice) == (totalPrice * 5) \div 100

\* order.totalPrice * 0.10
Commission(totalPrice) == (totalPrice * CommissionPercent) \div 100

\* commission as recompute and the admin resync take it
FrozenCommission(o) ==
  IF o.commission > 0 THEN o.commission ELSE Commission(o.totalPrice)

\* seller earnings as recompute and the admin resync take them
FrozenEarnings(o) ==
  IF o.sellerEarnings > 0 THEN o.sellerEarnings
  ELSE o.totalPrice - FrozenCommission(o)

(***************************************************************************)
(* recomputeWalletForSeller: the wallet rebuilt from the delivered orders  *)
(* and the withdrawal requests of a seller, both in creation order         *)
(***************************************************************************)
RecomputeStart ==
  [transactions |-> <<>>, runningBalance |-> 0, totalEarnings |-> 0,
   totalWithdrawn |-> 0, pendingWithdrawals |-> 0]

\* a mutant: the credit entry's snapshot is the balance before the credit
RecomputeOrderSnapshotBefore(acc, id, o) ==
  LET sellerEarnings == FrozenEarnings(o)
      rb == acc.runningBalance + sellerEarnings
  IN [acc EXCEPT
        !.runningBalance = rb,
        !.totalEarnings = @ + sellerEarnings,
        !.transactions = Append(@, Tx("credit", sellerEarnings, "earnings",
                                      id, 0, acc.runningBalance, "completed"))]

\* one iteration of the loop over deliveredOrders
RecomputeOrder(acc, id, o) ==
  LET sellerEarnings == FrozenEarnings(o)
      rb == acc.runningBalance + sellerEarnings
  IN [acc EXCEPT
        !.runningBalance = rb,
        !.totalEarnings = @ + sellerEarnings,
        !.transactions = Append(@, Tx("credit", sellerEarnings, "earnings",
                                      id, 0, rb, "completed"))]

\* a mutant: the hold of a rejected request stays counted
RecomputeWithdrawalHoldingRejected(acc, id, wr) ==
  IF wr.status \in {"pending", "approved", "rejected"}
  THEN LET rb == acc.runningBalance - wr.amount
       IN [acc EXCEPT
             !.runningBalance = rb,
             !.pendingWithdrawals = @ + wr.amount,
             !.transactions = Append(@, Tx("debit", wr.amount, "created",
                                           0, id, rb, "pending"))]
  ELSE LET rb == acc.runningBalance - wr.amount
       IN [acc EXCEPT
             !.runningBalance = rb,
             !.totalWithdrawn = @ + wr.amount,
             !.transactions = Append(@, Tx("debit", wr.amount, "processed",
                                           0, id, rb, "completed"))]

\* one iteration of the loop over withdrawals
RecomputeWithdrawal(acc, id, wr) ==
  IF wr.status \in {"pending", "approved"}
  THEN LET rb == acc.runningBalance - wr.amount
       IN [acc EXCEPT
             !.runningBalance = rb,
             !.pendingWithdrawals = @ + wr.amount,
             !.transactions = Append(@, Tx("debit", wr.amount, "created",
                                           0, id, rb, "pending"))]
  ELSE IF wr.status = "rejected"
  THEN LET rb == acc.runningBalance - wr.amount
       IN [acc EXCEPT
             !.transactions =
                Append(Append(@, Tx("debit", wr.amount, "created",
                                    0, id, rb, "pending")),
                       Tx("credit", wr.amount, "refunded",
                          0, id, rb + wr.amount, "completed"))]
  ELSE LET rb == acc.runningBalance - wr.amount
       IN [acc EXCEPT
             !.runningBalance = rb,
             !.totalWithdrawn = @ + wr.amount,
             !.transactions = Append(@, Tx("debit", wr.amount, "processed",
                                           0, id, rb, "completed"))]

\* a mutant: orders flagged as credited are taken as already in the wallet
RECURSIVE RecomputeOrdersUnflagged(_, _, _, _)
RecomputeOrdersUnflagged(acc, os, s, i) ==
  IF i > Len(os) THEN acc
  ELSE RecomputeOrdersUnflagged(
         IF /\ os[i].seller = s /\ os[i].orderStatus = "delivered"
            /\ ~os[i].isEarningsCredited
         THEN RecomputeOrder(acc, i, os[i]) ELSE acc,
         os, s, i + 1)

\* the loop over deliveredOrders: the seller's orders in status delivered
RECURSIVE RecomputeOrders(_, _, _, _)
RecomputeOrders(acc, os, s, i) ==
  IF i > Len(os) THEN acc
  ELSE RecomputeOrders(
         IF os[i].seller = s /\ os[i].orderStatus = "delivered"
         THEN RecomputeOrder(acc, i, os[i]) ELSE acc,
         os, s, i + 1)

RECURSIVE RecomputeWithdrawals(_, _, _, _)
RecomputeWithdrawals(acc, ws, s, i) ==
  IF i > Len(ws) THEN acc
  ELSE RecomputeWithdrawals(
         IF ws[i].seller = s THEN RecomputeWithdrawal(acc, i, ws[i]) ELSE acc,
         ws, s, i + 1)

\* the document the upsert leaves: $set of the five computed fields
RecomputedWallet(os, ws, s) ==
  LET acc == RecomputeWithdrawals(
               RecomputeOrders(RecomputeStart, os, s, 1), ws, s, 1)
  IN [exists |-> TRUE,
      balance |-> acc.runningBalance,
      totalEarnings |-> acc.totalEarnings,
      totalWithdrawn |-> acc.totalWithdrawn,
      pendingWithdrawals |-> acc.pendingWithdrawals,
      transactions |-> acc.transactions]

\* a mutant: the computed entries are pushed onto the stored log
RecomputeFromPushing(existing, os, ws, s) ==
  LET computed == RecomputedWallet(os, ws, s)
  IN [computed EXCEPT
        !.transactions = existing.transactions \o computed.transactions]

\* a mutant: the computed fields are set only when the wallet is inserted
RecomputeFromInsertOnly(existing, os, ws, s) ==
  IF existing.exists THEN existing ELSE RecomputedWallet(os, ws, s)

\* recomputeWalletForSeller from the wallet it finds: the upsert sets the five
\* computed fields on the stored document, or inserts it
RecomputeFrom(existing, os, ws, s) ==
  LET computed == RecomputedWallet(os, ws, s)
  IN [existing EXCEPT
        !.exists = TRUE,
        !.transactions = computed.transactions,
        !.balance = computed.balance,
        !.totalEarnings = computed.totalEarnings,
        !.totalWithdrawn = computed.totalWithdrawn,
        !.pendingWithdrawals = computed.pendingWithdrawals]

(***************************************************************************)
(* Catalogue: products and seller listings (SellerProduct documents)       *)
(***************************************************************************)
Products == {"p1", "p2"}
ListingIds == {"l1", "l2", "l3"}
Listing(l) ==
  CASE l = "l1" -> [seller |-> "s1", product |-> "p1", sellerPrice |-> 1000]
    [] l = "l2" -> [seller |-> "s2", product |-> "p2", sellerPrice |-> 500]
    [] l = "l3" -> [seller |-> "s1", product |-> "p2", sellerPrice |-> 500]

\* an order line as createOrder builds it from a product and a listing
OrderItem(product, l, quantity) ==
  [product |-> product, price |-> Listing(l).sellerPrice, quantity |-> quantity]

\* the Order schema's defaults for the fields the ledger keeps on an order
OrderDefaults ==
  [isEarningsCredited |-> FALSE, commission |-> 0, sellerEarnings |-> 0]

\* new Order({...}) as built by createOrder / createOrderForRazorpay
NewOrder(user, seller, items, itemsPrice, discount, totalPrice, method, key, at) ==
  [user |-> user, seller |-> seller, orderItems |-> items,
   itemsPrice |-> itemsPrice, taxPrice |-> 0, shippingPrice |-> 0,
   discount |-> discount, totalPrice |-> totalPrice,
   paymentMethod |-> method, orderStatus |-> "pending",
   paymentStatus |-> "pending", paymentResult |-> "none",
   orderIdempotencyKey |-> key, createdAt |-> at,
   isEarningsCredited |-> OrderDefaults.isEarningsCredited,
   commission |-> OrderDefaults.commission,
   sellerEarnings |-> OrderDefaults.sellerEarnings]

\* the order a one-line cod cart for listing l leaves, without key or discount
PlacedOrder(l) ==
  NewOrder("u1", Listing(l).seller, <<OrderItem(Listing(l).product, l, 1)>>,
           Listing(l).sellerPrice, 0, Listing(l).sellerPrice, "cod", "none", 0)

\* the listings the orders placed before the ledger's run were bought from
InitListing(i) == IF i = 1 THEN "l1" ELSE IF i = 2 THEN "l3" ELSE "l2"

RECURSIVE SoldIn(_, _, _)
SoldIn(os, p, i) ==
  IF i > Len(os) THEN 0
  ELSE (IF os[i].orderItems[1].product = p THEN 1 ELSE 0) + SoldIn(os, p, i + 1)

(***************************************************************************)
(* Queries                                                                 *)
(***************************************************************************)
WithdrawalIds == 1..Len(withdrawals)
OrderIds == 1..Len(orders)

\* a mutant: the count looks at approved requests
CountPendingApproved(ws, s) ==
  Cardinality({i \in 1..Len(ws) : ws[i].seller = s /\ ws[i].status = "approved"})

\* WithdrawalRequest.countDocuments({seller, status: 'pending'})
CountPending(ws, s) ==
  Cardinality({i \in 1..Len(ws) : ws[i].seller = s /\ ws[i].status = "pending"})

\* a mutant: only a bank transfer has its destination checked
DetailsValidBankOnly(method, details) ==
  IF method = "bank_transfer" THEN details.accountNumber /\ details.ifscCode
  ELSE TRUE

\* withdrawalRequestSchema.pre('validate'): destination details per method
DetailsValid(method, details) ==
  IF method = "bank_transfer" THEN details.accountNumber /\ details.ifscCode
  ELSE IF method = "upi" THEN details.upiId
  ELSE IF method \in {"paytm", "phonepe"} THEN details.walletNumber
  ELSE TRUE

\* the wallet's entries that credit an order
CreditedOrderIds(w) ==
  {w.transactions[i].orderId : i \in
     {j \in 1..Len(w.transactions) :
        w.transactions[j].type = "credit" /\ w.transactions[j].orderId # 0}}

\* the last pending debit entry of a withdrawal (0: none)
PendingDebitIndex(w, id) ==
  LET hits == {j \in 1..Len(w.transactions) :
                 /\ w.transactions[j].withdrawalId = id
                 /\ w.transactions[j].type = "debit"
                 /\ w.transactions[j].status = "pending"}
  IN IF hits = {} THEN 0 ELSE CHOOSE j \in hits : \A k \in hits : k <= j

(***************************************************************************)
(* Responses                                                               *)
(***************************************************************************)
\* the HTTP status of the last response and the orders it lists
\* (the requesting user and idempotency key are kept with an order-creation
\* response)
Resp(code) ==
  [code |-> code, orders |-> <<>>, isDuplicate |-> FALSE,
   user |-> "none", key |-> "none"]


(***************************************************************************)
(* Requests in flight: a handler that is between two of its awaits, with   *)
(* the documents it has loaded.  Handlers run as one step have none.        *)
(***************************************************************************)
Procs == {"a", "b"}

\* an order as a handler holds it after loading: its id and the fields the
\* handler reads or has set on its copy
LoadedOrder(id, o, commission, sellerEarnings) ==
  [id |-> id, orderStatus |-> o.orderStatus,
   isEarningsCredited |-> o.isEarningsCredited,
   commission |-> commission, sellerEarnings |-> sellerEarnings]

\* no order request is held
NoRequest ==
  [user |-> "none", key |-> "none", items |-> <<>>, discount |-> 0,
   method |-> "none", useSession |-> FALSE, at |-> 0]

Call(op, pc, seller, status, amount, details, wid, wallet, todo, seen) ==
  [op |-> op, pc |-> pc, seller |-> seller, status |-> status,
   amount |-> amount, details |-> details, wid |-> wid, wallet |-> wallet,
   todo |-> todo, seen |-> seen, n |-> 0, v |-> 0, req |-> NoRequest]

Idle == Call("idle", "done", "none", "none", 0, TRUE, 0, NoWallet, <<>>, {})

NoCalls == [p \in Procs |-> Idle]

(***************************************************************************)
(* Orders: status updates and the earnings credit                          *)
(***************************************************************************)
\* a mutant: the credit is not gated by the flag
ShouldCreditUngated(o, status) == status = "delivered"

\* status === 'delivered' && !order.isEarningsCredited
ShouldCredit(o, status) == status = "delivered" /\ ~o.isEarningsCredited

\* Wallet.findOne({seller}) followed by Wallet.create when there is none
FindOrCreateWallet(s) == IF wallets[s].exists THEN wallets[s] ELSE NewWallet

\* wallet.save(): the document is written when it passes validation
Saved(before, after) == IF WalletValid(after) THEN after ELSE before

updateOrderStatus(id, status) ==
  /\ IF id \notin OrderIds
     THEN /\ resp' = Resp(404)
          /\ UNCHANGED <<orders, wallets>>
     ELSE LET o == orders[id]
              s == o.seller
          IN /\ IF ShouldCredit(o, status)
                THEN LET commission == Commission(o.totalPrice)
                         sellerEarnings == o.totalPrice - commission
                         wallet == FindOrCreateWallet(s)
                         credited == AddTransaction(wallet, "credit",
                                       sellerEarnings, "earnings", id)
                     IN /\ wallets' = [wallets EXCEPT
                                         ![s] = Saved(wallet, credited)]
                        \* a failed credit is caught; the order is saved anyway
                        /\ orders' = [orders EXCEPT ![id] =
                             [o EXCEPT !.orderStatus = status,
                                       !.commission = commission,
                                       !.sellerEarnings = sellerEarnings,
                                       !.isEarningsCredited = TRUE]]
                ELSE /\ orders' = [orders EXCEPT ![id].orderStatus = status]
                     /\ UNCHANGED wallets
             /\ resp' = Resp(200)
  /\ UNCHANGED <<products, withdrawals, now, calls, versions>>

cancelOrder(id) ==
  /\ IF id \notin OrderIds
     THEN /\ resp' = Resp(404)
          /\ UNCHANGED orders
     ELSE /\ orders' = [orders EXCEPT ![id].orderStatus = "cancelled"]
          /\ resp' = Resp(200)
  /\ UNCHANGED <<products, wallets, withdrawals, now, calls, versions>>

(***************************************************************************)
(* Admin resync: back-fill credits of delivered orders                     *)
(***************************************************************************)
\* the order as saved before its credit is added
ResyncedOrder(o) ==
  [o EXCEPT !.commission = FrozenCommission(o),
            !.sellerEarnings = FrozenEarnings(o),
            !.isEarningsCredited = TRUE]

\* the loop of adminResyncSellerWallet from order i on; st.failed is set when
\* addTransaction throws, which ends the handler
RECURSIVE ResyncLoop(_, _, _, _)
ResyncLoop(st, s, creditedOrderIdSet, i) ==
  IF i > Len(st.orders) \/ st.failed THEN st
  ELSE LET o == st.orders[i]
       IN IF o.seller # s \/ o.orderStatus # "delivered"
          THEN ResyncLoop(st, s, creditedOrderIdSet, i + 1)
          ELSE IF i \in creditedOrderIdSet
          THEN ResyncLoop(
                 [st EXCEPT !.orders[i].isEarningsCredited = TRUE],
                 s, creditedOrderIdSet, i + 1)
          ELSE LET credited == AddTransaction(st.wallet, "credit",
                                 FrozenEarnings(o), "earnings", i)
               IN ResyncLoop(
                    [orders |-> [st.orders EXCEPT ![i] = ResyncedOrder(o)],
                     wallet |-> Saved(st.wallet, credited),
                     failed |-> ~WalletValid(credited)],
                    s, creditedOrderIdSet, i + 1)

adminResyncSellerWallet(s) ==
  LET wallet == FindOrCreateWallet(s)
      st == ResyncLoop([orders |-> orders, wallet |-> wallet, failed |-> FALSE],
                       s, CreditedOrderIds(wallet), 1)
  IN /\ orders' = st.orders
     /\ wallets' = [wallets EXCEPT ![s] = st.wallet]
     /\ resp' = Resp(IF st.failed THEN 500 ELSE 200)
     /\ UNCHANGED <<products, withdrawals, now, calls, versions>>

adminResyncOrderToWallet(id) ==
  /\ IF id \notin OrderIds
     THEN /\ resp' = Resp(404)
          /\ UNCHANGED <<orders, wallets>>
     ELSE IF orders[id].orderStatus # "delivered"
     THEN /\ resp' = Resp(400)
          /\ UNCHANGED <<orders, wallets>>
     ELSE LET o == orders[id]
              s == o.seller
              wallet == FindOrCreateWallet(s)
          IN IF id \in CreditedOrderIds(wallet)
             THEN /\ orders' = [orders EXCEPT ![id].isEarningsCredited = TRUE]
                  /\ wallets' = [wallets EXCEPT ![s] = wallet]
                  /\ resp' = Resp(200)
             ELSE LET credited == AddTransaction(wallet, "credit",
                                    FrozenEarnings(o), "earnings", id)
                  IN /\ orders' = [orders EXCEPT ![id] = ResyncedOrder(o)]
                     /\ wallets' = [wallets EXCEPT
                                      ![s] = Saved(wallet, credited)]
                     /\ resp' = Resp(IF WalletValid(credited) THEN 200 ELSE 500)
  /\ UNCHANGED <<products, withdrawals, now, calls, versions>>


(***************************************************************************)
(* Withdrawal requests                                                     *)
(***************************************************************************)
\* the stored request; its payout method and destination details passed
\* validation at creation and are not read again
NewWithdrawal(s, amount) ==
  [seller |-> s, amount |-> amount, status |-> "pending"]

\* a mutant: the hold is recorded without debiting the balance
HoldFundsKeepsBalance(w, amount, id) ==
  [w EXCEPT
     !.pendingWithdrawals = @ + amount,
     !.transactions = Append(@, Tx("debit", amount, "created", 0, id,
                                   w.balance, "pending"))]

\* a mutant: the hold is booked through addTransaction('debit', ...)
HoldFundsViaAddTransaction(w, amount, id) ==
  [w EXCEPT
     !.pendingWithdrawals = @ + amount,
     !.balance = @ - amount,
     !.totalWithdrawn = @ + amount,
     !.transactions = Append(@, Tx("debit", amount, "created", 0, id,
                                   w.balance, "completed"))]

\* createWithdrawalRequest: funds move from balance to pendingWithdrawals
HoldFunds(w, amount, id) ==
  [w EXCEPT
     !.pendingWithdrawals = @ + amount,
     !.balance = @ - amount,
     !.transactions = Append(@, Tx("debit", amount, "created", 0, id,
                                   w.balance - amount, "pending"))]

\* a mutant: the refund leaves the hold in place
RefundHoldKeepsPending(w, amount, id) ==
  [w EXCEPT
     !.balance = @ + amount,
     !.transactions = Append(@, Tx("credit", amount, "refunded", 0, id,
                                   w.balance + amount, "completed"))]

\* rejectWithdrawal: the hold goes back to the balance
RefundHold(w, amount, id) ==
  [w EXCEPT
     !.pendingWithdrawals = @ - amount,
     !.balance = @ + amount,
     !.transactions = Append(@, Tx("credit", amount, "refunded", 0, id,
                                   w.balance + amount, "completed"))]

\* a mutant: settling debits the balance a second time
SettleHoldDebitingBalance(w, amount, id) ==
  LET j == PendingDebitIndex(w, id)
  IN [w EXCEPT
        !.balance = @ - amount,
        !.pendingWithdrawals = @ - amount,
        !.totalWithdrawn = @ + amount,
        !.transactions =
           IF j # 0 THEN [@ EXCEPT ![j].status = "completed"]
           ELSE Append(@, Tx("debit", amount, "processed", 0, id,
                             w.balance, "completed"))]

\* processWithdrawal: the hold becomes withdrawn; the pending debit entry is
\* completed, or a completed debit entry is appended when there is none
SettleHold(w, amount, id) ==
  LET j == PendingDebitIndex(w, id)
  IN [w EXCEPT
        !.pendingWithdrawals = @ - amount,
        !.totalWithdrawn = @ + amount,
        !.transactions =
           IF j # 0 THEN [@ EXCEPT ![j].status = "completed"]
           ELSE Append(@, Tx("debit", amount, "processed", 0, id,
                             w.balance, "completed"))]

\* a mutant: only the missing wallet is refused
InsufficientNoWalletOnly(w, amount) == ~w.exists

\* !wallet || wallet.balance < amount
Insufficient(w, amount) == ~w.exists \/ w.balance < amount

createWithdrawalRequest(s, amount, method, details) ==
  /\ Len(withdrawals) < MaxWithdrawals
  /\ IF amount < MinWithdrawal
     THEN /\ resp' = Resp(400)
          /\ UNCHANGED <<wallets, withdrawals>>
     ELSE IF Insufficient(wallets[s], amount)
     THEN /\ resp' = Resp(400)
          /\ UNCHANGED <<wallets, withdrawals>>
     ELSE IF CountPending(withdrawals, s) > 0
     THEN /\ resp' = Resp(400)
          /\ UNCHANGED <<wallets, withdrawals>>
     ELSE IF ~DetailsValid(method, details)
     \* WithdrawalRequest.create throws on validation
     THEN /\ resp' = Resp(500)
          /\ UNCHANGED <<wallets, withdrawals>>
     ELSE LET id == Len(withdrawals) + 1
              held == HoldFunds(wallets[s], amount, id)
          IN /\ withdrawals' = Append(withdrawals,
                                      NewWithdrawal(s, amount))
             /\ wallets' = [wallets EXCEPT ![s] = Saved(@, held)]
             /\ resp' = Resp(IF WalletValid(held) THEN 201 ELSE 500)
  /\ UNCHANGED <<orders, products, now, calls, versions>>

\* a mutant: approve accepts a request in any state
ApprovableAny(wr) == TRUE

\* withdrawal.status !== 'pending' refuses approve and reject
Approvable(wr) == wr.status = "pending"

Rejectable(wr) == wr.status = "pending"

\* withdrawal.status !== 'approved' refuses process
Processable(wr) == wr.status = "approved"

approveWithdrawal(id) ==
  /\ IF id \notin WithdrawalIds
     THEN /\ resp' = Resp(404)
          /\ UNCHANGED withdrawals
     ELSE IF ~Approvable(withdrawals[id])
     THEN /\ resp' = Resp(400)
          /\ UNCHANGED withdrawals
     ELSE /\ withdrawals' = [withdrawals EXCEPT ![id].status = "approved"]
          /\ resp' = Resp(200)
  /\ UNCHANGED <<orders, products, wallets, now, calls, versions>>

rejectWithdrawal(id) ==
  /\ IF id \notin WithdrawalIds
     THEN /\ resp' = Resp(404)
          /\ UNCHANGED <<withdrawals, wallets>>
     ELSE IF ~Rejectable(withdrawals[id])
     THEN /\ resp' = Resp(400)
          /\ UNCHANGED <<withdrawals, wallets>>
     ELSE LET wr == withdrawals[id]
              wallet == wallets[wr.seller]
              refunded == RefundHold(wallet, wr.amount, id)
          IN /\ withdrawals' = [withdrawals EXCEPT ![id].status = "rejected"]
             /\ IF wallet.exists
                THEN /\ wallets' = [wallets EXCEPT
                                      ![wr.seller] = Saved(wallet, refunded)]
                     /\ resp' = Resp(IF WalletValid(refunded) THEN 200 ELSE 500)
                ELSE /\ UNCHANGED wallets
                     /\ resp' = Resp(200)
  /\ UNCHANGED <<orders, products, now, calls, versions>>

processWithdrawal(id) ==
  /\ IF id \notin WithdrawalIds
     THEN /\ resp' = Resp(404)
          /\ UNCHANGED <<withdrawals, wallets>>
     ELSE IF ~Processable(withdrawals[id])
     THEN /\ resp' = Resp(400)
          /\ UNCHANGED <<withdrawals, wallets>>
     ELSE LET wr == withdrawals[id]
              wallet == wallets[wr.seller]
              settled == SettleHold(wallet, wr.amount, id)
          IN /\ withdrawals' = [withdrawals EXCEPT ![id].status = "processed"]
             /\ IF wallet.exists
                THEN /\ wallets' = [wallets EXCEPT
                                      ![wr.seller] = Saved(wallet, settled)]
                     /\ resp' = Resp(IF WalletValid(settled) THEN 200 ELSE 500)
                ELSE /\ UNCHANGED wallets
                     /\ resp' = Resp(200)
  /\ UNCHANGED <<orders, products, now, calls, versions>>

\* getSellerWallet, getTransactionHistory and the admin recompute route
recomputeWalletForSeller(s) ==
  /\ wallets' = [wallets EXCEPT
                   ![s] = RecomputeFrom(@, orders, withdrawals, s)]
  /\ resp' = Resp(200)
  /\ UNCHANGED <<orders, products, withdrawals, now, calls, versions>>

(***************************************************************************)
(* The ledger: orders already placed, then deliveries, withdrawals,        *)
(* reconciliation                                                          *)
(***************************************************************************)
Init ==
  /\ orders = [i \in 1..MaxOrders |-> PlacedOrder(InitListing(i))]
  /\ products = [p \in Products |-> SoldIn(orders, p, 1)]
  /\ wallets = [s \in Sellers |-> NoWallet]
  /\ withdrawals = <<>>
  /\ now = 0
  /\ resp = Resp(0)
  /\ calls = NoCalls
  /\ versions = [s \in Sellers |-> 0]

Next ==
  \/ \E id \in 1..MaxOrders, status \in StatusInputs :
       updateOrderStatus(id, status)
  \/ \E id \in 1..MaxOrders : cancelOrder(id)
  \/ \E s \in Sellers : adminResyncSellerWallet(s)
  \/ \E id \in 1..MaxOrders : adminResyncOrderToWallet(id)
  \/ \E s \in Sellers, amount \in WithdrawAmounts, p \in PayoutInputs :
       createWithdrawalRequest(s, amount, p.method, p.details)
  \/ \E id \in 1..MaxWithdrawals : approveWithdrawal(id)
  \/ \E id \in 1..MaxWithdrawals : rejectWithdrawal(id)
  \/ \E id \in 1..MaxWithdrawals : processWithdrawal(id)
  \/ \E s \in Sellers : recomputeWalletForSeller(s)

Spec == Init /\ [][Next]_vars


\* every handler but the reconciliation
NextIncremental ==
  \/ \E id \in 1..MaxOrders, status \in StatusInputs :
       updateOrderStatus(id, status)
  \/ \E id \in 1..MaxOrders : cancelOrder(id)
  \/ \E s \in Sellers : adminResyncSellerWallet(s)
  \/ \E id \in 1..MaxOrders : adminResyncOrderToWallet(id)
  \/ \E s \in Sellers, amount \in WithdrawAmounts, p \in PayoutInputs :
       createWithdrawalRequest(s, amount, p.method, p.details)
  \/ \E id \in 1..MaxWithdrawals : approveWithdrawal(id)
  \/ \E id \in 1..MaxWithdrawals : rejectWithdrawal(id)
  \/ \E id \in 1..MaxWithdrawals : processWithdrawal(id)

SpecIncremental == Init /\ [][NextIncremental]_vars

(***************************************************************************)
(* The ledger of a seller with several orders: one order's credit can fail *)
(* because of what the others left in the wallet                           *)
(***************************************************************************)
InitLedger ==
  /\ orders = [i \in 1..MaxLedgerOrders |-> PlacedOrder(InitListing(i))]
  /\ products = [p \in Products |-> SoldIn(orders, p, 1)]
  /\ wallets = [s \in Sellers |-> NoWallet]
  /\ withdrawals = <<>>
  /\ now = 0
  /\ resp = Resp(0)
  /\ calls = NoCalls
  /\ versions = [s \in Sellers |-> 0]

NextLedger ==
  \/ \E id \in 1..MaxLedgerOrders, status \in StatusInputs :
       updateOrderStatus(id, status)
  \/ \E id \in 1..MaxLedgerOrders : cancelOrder(id)
  \/ \E s \in Sellers : adminResyncSellerWallet(s)
  \/ \E id \in 1..MaxLedgerOrders : adminResyncOrderToWallet(id)
  \/ \E s \in Sellers, amount \in WithdrawAmounts, p \in PayoutInputs :
       createWithdrawalRequest(s, amount, p.method, p.details)
  \/ \E id \in 1..MaxWithdrawals : approveWithdrawal(id)
  \/ \E id \in 1..MaxWithdrawals : rejectWithdrawal(id)
  \/ \E id \in 1..MaxWithdrawals : processWithdrawal(id)
  \/ \E s \in Sellers : recomputeWalletForSeller(s)

SpecLedger == InitLedger /\ [][NextLedger]_vars

(***************************************************************************)
(* Interleaved handlers: a step is the code between two awaits, so that    *)
(* the requests of two clients interleave at the database operations.      *)
(* A loaded document is a copy; save() writes the paths modified on it.    *)
(***************************************************************************)
RaceSellers == {"s1"}
RacePayouts ==
  {[method |-> "upi", details |-> Details(FALSE, FALSE, TRUE, FALSE)],
   [method |-> "upi", details |-> Details(TRUE, TRUE, FALSE, TRUE)]}

\* wallet.save() of a loaded copy: the modified scalar paths are $set to the
\* copy's values and the entries pushed on the copy are $push-ed onto the
\* stored array
WriteWallet(stored, local, paths, pushed) ==
  LET n == Len(local.transactions)
  IN [stored EXCEPT
        !.balance = IF "balance" \in paths THEN local.balance ELSE @,
        !.totalEarnings =
           IF "totalEarnings" \in paths THEN local.totalEarnings ELSE @,
        !.totalWithdrawn =
           IF "totalWithdrawn" \in paths THEN local.totalWithdrawn ELSE @,
        !.pendingWithdrawals =
           IF "pendingWithdrawals" \in paths THEN local.pendingWithdrawals
           ELSE @,
        !.transactions = @ \o SubSeq(local.transactions, n - pushed + 1, n)]

\* a mutant: a unique index refuses a second pending request of a seller
PendingIndexConflictUnique(ws, s) == CountPending(ws, s) > 0

\* the indexes of the withdrawal requests: none is unique, an insert is
\* never refused because of the requests already stored
PendingIndexConflict(ws, s) == FALSE

\* Order.find({seller, orderStatus: 'delivered'}) as the resync loads it
DeliveredOrders(os, s) ==
  LET all == [i \in 1..Len(os) |->
                LoadedOrder(i, os[i], FrozenCommission(os[i]),
                            FrozenEarnings(os[i]))]
      Mine(x) == os[x.id].seller = s /\ x.orderStatus = "delivered"
  IN SelectSeq(all, Mine)

\* the resync loop up to its next write: orders already credited and flagged
\* are passed over
RECURSIVE Loop(_)
Loop(c) ==
  IF c.todo = <<>> THEN [c EXCEPT !.pc = "done"]
  ELSE IF c.todo[1].id \in c.seen /\ c.todo[1].isEarningsCredited
  THEN Loop([c EXCEPT !.todo = Tail(@)])
  ELSE [c EXCEPT !.pc = "saveOrder"]

\* where a handler goes on once it holds the seller's wallet
WithWallet(c, w) ==
  IF c.op = "updateOrderStatus" THEN [c EXCEPT !.wallet = w, !.pc = "credit"]
  ELSE IF c.op = "adminResyncOrderToWallet"
  THEN Loop([c EXCEPT !.wallet = w, !.seen = CreditedOrderIds(w)])
  ELSE [c EXCEPT !.wallet = w, !.pc = "findOrders"]

\* the call goes on at c.pc, or ends with a response
\* (n counts the requests the client has sent)
Continue(p, c, code) ==
  LET n == calls[p].n + (IF calls[p].op = "idle" THEN 1 ELSE 0)
  IN
  /\ calls' = [calls EXCEPT ![p] =
                 [(IF c.pc = "done" THEN Idle ELSE c) EXCEPT !.n = n]]
  /\ resp' = IF c.pc = "done" THEN Resp(code) ELSE resp

\* updateOrderStatus up to Order.findById and the in-memory changes
StartUpdateOrderStatus(p, id, status) ==
  /\ calls[p].op = "idle"
  /\ calls[p].n < MaxRequests
  /\ LET o == orders[id]
         credit == ShouldCredit(o, status)
         commission == IF credit THEN Commission(o.totalPrice)
                       ELSE o.commission
         sellerEarnings == IF credit THEN o.totalPrice - commission
                           ELSE o.sellerEarnings
     IN Continue(p, Call("updateOrderStatus",
                         IF credit THEN "findWallet" ELSE "saveOrder",
                         o.seller, status, 0, TRUE, 0, NoWallet,
                         <<LoadedOrder(id, o, commission, sellerEarnings)>>,
                         {}), 0)
  /\ UNCHANGED <<orders, products, wallets, withdrawals, now, versions>>

\* adminResyncOrderToWallet up to Order.findById and the status check
StartResyncOrderToWallet(p, id) ==
  /\ calls[p].op = "idle"
  /\ calls[p].n < MaxRequests
  /\ LET o == orders[id]
     IN IF o.orderStatus # "delivered"
        THEN Continue(p, Idle, 400)
        ELSE Continue(p, Call("adminResyncOrderToWallet", "findWallet",
                              o.seller, "none", 0, TRUE, 0, NoWallet,
                              <<LoadedOrder(id, o, FrozenCommission(o),
                                            FrozenEarnings(o))>>, {}), 0)
  /\ UNCHANGED <<orders, products, wallets, withdrawals, now, versions>>

\* adminResyncSellerWallet up to Seller.findById
StartResyncSellerWallet(p, s) ==
  /\ calls[p].op = "idle"
  /\ calls[p].n < MaxRequests
  /\ Continue(p, Call("adminResyncSellerWallet", "findWallet", s, "none", 0,
                      TRUE, 0, NoWallet, <<>>, {}), 0)
  /\ UNCHANGED <<orders, products, wallets, withdrawals, now, versions>>

\* createWithdrawalRequest up to the amount check
StartCreateWithdrawalRequest(p, s, amount, method, details) ==
  /\ calls[p].op = "idle"
  /\ calls[p].n < MaxRequests
  /\ Len(withdrawals) +
       Cardinality({q \in Procs : calls[q].op = "createWithdrawalRequest"})
     < MaxWithdrawals
  /\ IF amount < MinWithdrawal
     THEN Continue(p, Idle, 400)
     ELSE Continue(p, Call("createWithdrawalRequest", "findWallet", s, "none",
                           amount, DetailsValid(method, details), 0, NoWallet,
                           <<>>, {}), 0)
  /\ UNCHANGED <<orders, products, wallets, withdrawals, now, versions>>

\* Wallet.findOne({seller}), and the balance check of createWithdrawalRequest
FindWallet(p) ==
  LET c == calls[p]
      stored == wallets[c.seller]
  IN /\ c.pc = "findWallet"
     /\ IF c.op = "createWithdrawalRequest"
        THEN IF Insufficient(stored, c.amount)
             THEN Continue(p, Idle, 400)
             ELSE Continue(p, [c EXCEPT !.wallet = stored,
                                        !.pc = "countPending"], 0)
        ELSE IF stored.exists
        THEN Continue(p, WithWallet(c, stored), 200)
        ELSE Continue(p, [c EXCEPT !.pc = "createWallet"], 0)
     /\ UNCHANGED <<orders, products, wallets, withdrawals, now, versions>>

\* Wallet.create({seller}): the unique index on seller refuses a second
\* wallet; updateOrderStatus catches the error and goes on to save the order
CreateWallet(p) ==
  LET c == calls[p]
  IN /\ c.pc = "createWallet"
     /\ IF wallets[c.seller].exists
        THEN /\ IF c.op = "updateOrderStatus"
                THEN Continue(p, [c EXCEPT !.pc = "saveOrder"], 0)
                ELSE Continue(p, Idle, 500)
             /\ UNCHANGED wallets
        ELSE /\ wallets' = [wallets EXCEPT ![c.seller] = NewWallet]
             /\ Continue(p, WithWallet(c, NewWallet), 200)
     /\ UNCHANGED <<orders, products, withdrawals, now, versions>>

\* adminResyncSellerWallet: Order.find of the delivered orders and the set of
\* order ids the loaded wallet credits
FindOrders(p) ==
  LET c == calls[p]
  IN /\ c.pc = "findOrders"
     /\ Continue(p, Loop([c EXCEPT
                            !.todo = DeliveredOrders(orders, c.seller),
                            !.seen = CreditedOrderIds(c.wallet)]), 200)
     /\ UNCHANGED <<orders, products, wallets, withdrawals, now, versions>>

\* order.save(): of updateOrderStatus, last, with the status and, when the
\* handler went for the credit, the earnings fields; of the resyncs, the flag
\* alone for an order the loaded wallet credits, else the earnings fields
\* ahead of the credit
SaveOrder(p) ==
  LET c == calls[p]
      mine == c.todo[1]
      id == mine.id
  IN /\ c.pc = "saveOrder"
     /\ IF c.op = "updateOrderStatus"
        THEN /\ orders' = [orders EXCEPT ![id] =
                  [@ EXCEPT
                     !.orderStatus =
                        IF mine.orderStatus # c.status THEN c.status ELSE @,
                     !.commission =
                        IF ShouldCredit(mine, c.status) THEN mine.commission
                        ELSE @,
                     !.sellerEarnings =
                        IF ShouldCredit(mine, c.status)
                        THEN mine.sellerEarnings ELSE @,
                     !.isEarningsCredited =
                        IF ShouldCredit(mine, c.status) THEN TRUE ELSE @]]
             /\ Continue(p, Idle, 200)
        ELSE IF id \in c.seen
        THEN /\ orders' = [orders EXCEPT ![id].isEarningsCredited = TRUE]
             /\ Continue(p, Loop([c EXCEPT !.todo = Tail(@)]), 200)
        ELSE /\ orders' = [orders EXCEPT ![id] =
                  [@ EXCEPT !.commission = mine.commission,
                            !.sellerEarnings = mine.sellerEarnings,
                            !.isEarningsCredited = TRUE]]
             /\ Continue(p, [c EXCEPT !.pc = "credit"], 0)
     /\ UNCHANGED <<products, wallets, withdrawals, now, versions>>

\* wallet.addTransaction('credit', sellerEarnings, ..., order._id) on the
\* loaded copy, with its save()
Credit(p) ==
  LET c == calls[p]
      mine == c.todo[1]
      credited == AddTransaction(c.wallet, "credit", mine.sellerEarnings,
                                 "earnings", mine.id)
      ok == WalletValid(credited)
  IN /\ c.pc = "credit"
     /\ wallets' = IF ok
                   THEN [wallets EXCEPT ![c.seller] =
                           WriteWallet(@, credited,
                                       {"balance", "totalEarnings"}, 1)]
                   ELSE wallets
     /\ versions' = IF ok THEN [versions EXCEPT ![c.seller] = @ + 1]
                    ELSE versions
     /\ IF c.op = "updateOrderStatus"
        THEN Continue(p, [c EXCEPT !.wallet = credited, !.pc = "saveOrder"], 0)
        ELSE IF ok
        THEN Continue(p, Loop([c EXCEPT !.wallet = credited,
                                        !.todo = Tail(@)]), 200)
        ELSE Continue(p, Idle, 500)
     /\ UNCHANGED <<orders, products, withdrawals, now>>

\* WithdrawalRequest.countDocuments({seller, status: 'pending'})
CountPendingRequests(p) ==
  LET c == calls[p]
  IN /\ c.pc = "countPending"
     /\ IF CountPending(withdrawals, c.seller) > 0
        THEN Continue(p, Idle, 400)
        ELSE Continue(p, [c EXCEPT !.pc = "createRequest"], 0)
     /\ UNCHANGED <<orders, products, wallets, withdrawals, now, versions>>

\* WithdrawalRequest.create({seller, amount, bankDetails, paymentMethod})
CreateRequest(p) ==
  LET c == calls[p]
  IN /\ c.pc = "createRequest"
     /\ IF ~c.details \/ PendingIndexConflict(withdrawals, c.seller)
        THEN /\ Continue(p, Idle, 500)
             /\ UNCHANGED withdrawals
        ELSE /\ withdrawals' = Append(withdrawals,
                                      NewWithdrawal(c.seller, c.amount))
             /\ Continue(p, [c EXCEPT !.wid = Len(withdrawals) + 1,
                                      !.pc = "saveHold"], 0)
     /\ UNCHANGED <<orders, products, wallets, now, versions>>

\* the hold on the loaded copy, with wallet.save()
SaveHold(p) ==
  LET c == calls[p]
      held == HoldFunds(c.wallet, c.amount, c.wid)
      ok == WalletValid(held)
  IN /\ c.pc = "saveHold"
     /\ wallets' = IF ok
                   THEN [wallets EXCEPT ![c.seller] =
                           WriteWallet(@, held,
                                       {"balance", "pendingWithdrawals"}, 1)]
                   ELSE wallets
     /\ versions' = IF ok THEN [versions EXCEPT ![c.seller] = @ + 1]
                    ELSE versions
     /\ Continue(p, Idle, IF ok THEN 201 ELSE 500)
     /\ UNCHANGED <<orders, products, withdrawals, now>>

InitRace ==
  /\ orders = [i \in 1..MaxLedgerOrders |-> PlacedOrder(InitListing(i))]
  /\ products = [p \in Products |-> SoldIn(orders, p, 1)]
  /\ wallets = [s \in Sellers |-> NoWallet]
  /\ withdrawals = <<>>
  /\ now = 0
  /\ resp = Resp(0)
  /\ calls = NoCalls
  /\ versions = [s \in Sellers |-> 0]

NextRace ==
  \/ \E p \in Procs, id \in 1..MaxLedgerOrders, status \in StatusInputs :
       StartUpdateOrderStatus(p, id, status)
  \/ \E p \in Procs, id \in 1..MaxLedgerOrders :
       StartResyncOrderToWallet(p, id)
  \/ \E p \in Procs, s \in RaceSellers : StartResyncSellerWallet(p, s)
  \/ \E p \in Procs, s \in RaceSellers, amount \in WithdrawAmounts,
        y \in RacePayouts :
       StartCreateWithdrawalRequest(p, s, amount, y.method, y.details)
  \/ \E p \in Procs : FindWallet(p)
  \/ \E p \in Procs : CreateWallet(p)
  \/ \E p \in Procs : FindOrders(p)
  \/ \E p \in Procs : SaveOrder(p)
  \/ \E p \in Procs : Credit(p)
  \/ \E p \in Procs : CountPendingRequests(p)
  \/ \E p \in Procs : CreateRequest(p)
  \/ \E p \in Procs : SaveHold(p)

SpecRace == InitRace /\ [][NextRace]_vars

(***************************************************************************)
(* Interleaved withdrawal handlers and reconciliation.  No handler of      *)
(* these specifications writes an order, so that the orders a recompute    *)
(* reads first are the ones it would read together with the requests.      *)
(***************************************************************************)
\* a mutant: the upsert pushes the computed entries onto the stored log
UpsertWalletPushing(stored, computed) ==
  [stored EXCEPT
     !.exists = TRUE,
     !.transactions = @ \o computed.transactions,
     !.balance = computed.balance,
     !.totalEarnings = computed.totalEarnings,
     !.totalWithdrawn = computed.totalWithdrawn,
     !.pendingWithdrawals = computed.pendingWithdrawals]

\* Wallet.updateOne({seller}, {$set: {...}}, {upsert: true}): the five
\* computed fields replace the stored ones; the version key is left alone
UpsertWallet(stored, computed) ==
  [stored EXCEPT
     !.exists = TRUE,
     !.transactions = computed.transactions,
     !.balance = computed.balance,
     !.totalEarnings = computed.totalEarnings,
     !.totalWithdrawn = computed.totalWithdrawn,
     !.pendingWithdrawals = computed.pendingWithdrawals]

\* $set of transactions.<j-1>.status on the stored array: the element at that
\* position, whatever it is now; a position past the end pads the array
SetEntryStatus(log, j, status) ==
  [i \in 1..(IF j > Len(log) THEN j ELSE Len(log)) |->
     IF i = j
     THEN IF i <= Len(log) THEN [log[i] EXCEPT !.status = status]
          ELSE Tx("none", 0, "none", 0, 0, 0, status)
     ELSE IF i <= Len(log) THEN log[i]
     ELSE Tx("none", 0, "none", 0, 0, 0, "none")]

\* recomputeWalletForSeller up to Wallet.findOne and Order.find
StartRecompute(p, s) ==
  /\ calls[p].op = "idle"
  /\ calls[p].n < MaxRequests
  /\ Continue(p, Call("recomputeWalletForSeller", "readSources", s, "none", 0,
                      TRUE, 0, NoWallet, <<>>, {}), 0)
  /\ UNCHANGED <<orders, products, wallets, withdrawals, now, versions>>

\* WithdrawalRequest.find({seller}) and the two loops in memory
ReadSources(p) ==
  LET c == calls[p]
  IN /\ c.pc = "readSources"
     /\ Continue(p, [c EXCEPT
                       !.wallet = RecomputedWallet(orders, withdrawals,
                                                   c.seller),
                       !.pc = "upsert"], 0)
     /\ UNCHANGED <<orders, products, wallets, withdrawals, now, versions>>

\* Wallet.updateOne(..., {upsert: true}) and the final Wallet.findOne
Upsert(p) ==
  LET c == calls[p]
  IN /\ c.pc = "upsert"
     /\ wallets' = [wallets EXCEPT ![c.seller] = UpsertWallet(@, c.wallet)]
     /\ Continue(p, Idle, 200)
     /\ UNCHANGED <<orders, products, withdrawals, now, versions>>

\* WithdrawalRequest.findById and the status check of approveWithdrawal,
\* rejectWithdrawal and processWithdrawal; to is the status the handler is
\* going to store
LoadRequest(p, op, to, id) ==
  /\ IF id \notin WithdrawalIds
     THEN Continue(p, Idle, 404)
     ELSE LET wr == withdrawals[id]
              allowed == IF to = "approved" THEN Approvable(wr)
                         ELSE IF to = "rejected" THEN Rejectable(wr)
                         ELSE Processable(wr)
          IN IF ~allowed
             THEN Continue(p, Idle, 400)
             ELSE Continue(p, Call(op, "saveRequest", wr.seller, to,
                                   wr.amount, TRUE, id, NoWallet, <<>>, {}),
                           0)
  /\ UNCHANGED <<orders, products, wallets, withdrawals, now, versions>>

StartApproveWithdrawal(p, id) ==
  /\ calls[p].op = "idle"
  /\ calls[p].n < MaxRequests
  /\ LoadRequest(p, "approveWithdrawal", "approved", id)

StartRejectWithdrawal(p, id) ==
  /\ calls[p].op = "idle"
  /\ calls[p].n < MaxRequests
  /\ LoadRequest(p, "rejectWithdrawal", "rejected", id)

StartProcessWithdrawal(p, id) ==
  /\ calls[p].op = "idle"
  /\ calls[p].n < MaxRequests
  /\ LoadRequest(p, "processWithdrawal", "processed", id)

\* withdrawal.approve / reject / markAsProcessed: this.save() of the request
\* copy writes the new status
SaveRequest(p) ==
  LET c == calls[p]
  IN /\ c.pc = "saveRequest"
     /\ withdrawals' = [withdrawals EXCEPT ![c.wid].status = c.status]
     /\ IF c.op = "approveWithdrawal"
        THEN Continue(p, Idle, 200)
        ELSE Continue(p, [c EXCEPT !.pc = "findWalletOfRequest"], 0)
     /\ UNCHANGED <<orders, products, wallets, now, versions>>

\* Wallet.findOne({seller: withdrawal.seller}) of reject and process
FindWalletOfRequest(p) ==
  LET c == calls[p]
      stored == wallets[c.seller]
  IN /\ c.pc = "findWalletOfRequest"
     /\ IF ~stored.exists
        THEN Continue(p, Idle, 200)
        ELSE Continue(p, [c EXCEPT
                            !.wallet = stored,
                            !.v = versions[c.seller],
                            !.pc = IF c.op = "rejectWithdrawal"
                                   THEN "refund" ELSE "settle"], 0)
     /\ UNCHANGED <<orders, products, wallets, withdrawals, now, versions>>

\* rejectWithdrawal: the refund on the loaded copy, with wallet.save()
Refund(p) ==
  LET c == calls[p]
      refunded == RefundHold(c.wallet, c.amount, c.wid)
      ok == WalletValid(refunded)
  IN /\ c.pc = "refund"
     /\ wallets' = IF ok
                   THEN [wallets EXCEPT ![c.seller] =
                           WriteWallet(@, refunded,
                                       {"balance", "pendingWithdrawals"}, 1)]
                   ELSE wallets
     /\ versions' = IF ok THEN [versions EXCEPT ![c.seller] = @ + 1]
                    ELSE versions
     /\ Continue(p, Idle, IF ok THEN 200 ELSE 500)
     /\ UNCHANGED <<orders, products, withdrawals, now>>

\* processWithdrawal: the settlement on the loaded copy, with wallet.save().
\* Completing the pending debit entry sets an element of the array, and that
\* save is refused (VersionError) when the version key has moved since the
\* copy was loaded; the fallback entry is pushed, which raises the version.
Settle(p) ==
  LET c == calls[p]
      j == PendingDebitIndex(c.wallet, c.wid)
      settled == SettleHold(c.wallet, c.amount, c.wid)
      ok == /\ WalletValid(settled)
            /\ j # 0 => versions[c.seller] = c.v
      paths == {"pendingWithdrawals", "totalWithdrawn"}
  IN /\ c.pc = "settle"
     /\ wallets' =
          IF ~ok THEN wallets
          ELSE IF j = 0
          THEN [wallets EXCEPT ![c.seller] = WriteWallet(@, settled, paths, 1)]
          ELSE [wallets EXCEPT ![c.seller] =
                  [WriteWallet(@, settled, paths, 0) EXCEPT
                     !.transactions = SetEntryStatus(@, j, "completed")]]
     /\ versions' = IF ok /\ j = 0 THEN [versions EXCEPT ![c.seller] = @ + 1]
                    ELSE versions
     /\ Continue(p, Idle, IF ok THEN 200 ELSE 500)
     /\ UNCHANGED <<orders, products, withdrawals, now>>

\* an order after updateOrderStatus delivered it and credited its seller
SettledOrder(o) ==
  [o EXCEPT !.orderStatus = "delivered",
            !.commission = Commission(o.totalPrice),
            !.sellerEarnings = o.totalPrice - Commission(o.totalPrice),
            !.isEarningsCredited = TRUE]

\* the wallet after a hold was placed for each request of ws from i on
RECURSIVE HeldFor(_, _, _)
HeldFor(w, ws, i) ==
  IF i > Len(ws) THEN w
  ELSE HeldFor(HoldFunds(w, ws[i].amount, i), ws, i + 1)

\* the ledger after the order of s1 was delivered and the requests ws were
\* created one after the other, the earlier ones approved
InitSettled(ws) ==
  /\ orders = [i \in 1..MaxOrders |->
                 SettledOrder(PlacedOrder(InitListing(i)))]
  /\ products = [p \in Products |-> SoldIn(orders, p, 1)]
  /\ wallets = [s \in Sellers |->
                  IF s \in RaceSellers
                  THEN HeldFor(AddTransaction(NewWallet, "credit",
                                              orders[1].sellerEarnings,
                                              "earnings", 1), ws, 1)
                  ELSE NoWallet]
  /\ withdrawals = ws
  /\ now = 0
  /\ resp = Resp(0)
  /\ calls = NoCalls
  /\ versions = [s \in Sellers |-> IF s \in RaceSellers THEN 1 + Len(ws) ELSE 0]

\* the steps every interleaved withdrawal handler goes through
WithdrawalSteps ==
  \/ \E p \in Procs : SaveRequest(p)
  \/ \E p \in Procs : FindWalletOfRequest(p)
  \/ \E p \in Procs : Refund(p)
  \/ \E p \in Procs : Settle(p)

\* two admins act on the requests of one seller: one approved, one pending
InitAdminRace ==
  InitSettled(<<[NewWithdrawal("s1", MinWithdrawal) EXCEPT
                   !.status = "approved"],
                NewWithdrawal("s1", MinWithdrawal)>>)

NextAdminRace ==
  \/ \E p \in Procs, id \in 1..MaxWithdrawals : StartApproveWithdrawal(p, id)
  \/ \E p \in Procs, id \in 1..MaxWithdrawals : StartRejectWithdrawal(p, id)
  \/ \E p \in Procs, id \in 1..MaxWithdrawals : StartProcessWithdrawal(p, id)
  \/ WithdrawalSteps

SpecAdminRace == InitAdminRace /\ [][NextAdminRace]_vars

\* every client reads wallets, which recomputes them; client "b" also sends the
\* withdrawal requests of the seller and the admin's, and reads wallets too
Writers == {"b"}

InitReconcileRace ==
  InitSettled(<<[NewWithdrawal("s1", MinWithdrawal) EXCEPT
                   !.status = "approved"]>>)

NextReconcileRace ==
  \/ \E p \in Procs, s \in Sellers : StartRecompute(p, s)
  \/ \E p \in Procs : ReadSources(p)
  \/ \E p \in Procs : Upsert(p)
  \/ \E p \in Writers, s \in RaceSellers, amount \in WithdrawAmounts,
        y \in RacePayouts :
       StartCreateWithdrawalRequest(p, s, amount, y.method, y.details)
  \/ \E p \in Writers, id \in 1..MaxWithdrawals : StartApproveWithdrawal(p, id)
  \/ \E p \in Writers, id \in 1..MaxWithdrawals : StartRejectWithdrawal(p, id)
  \/ \E p \in Writers, id \in 1..MaxWithdrawals : StartProcessWithdrawal(p, id)
  \/ \E p \in Procs : FindWallet(p)
  \/ \E p \in Procs : CountPendingRequests(p)
  \/ \E p \in Procs : CreateRequest(p)
  \/ \E p \in Procs : SaveHold(p)
  \/ WithdrawalSteps

SpecReconcileRace == InitReconcileRace /\ [][NextReconcileRace]_vars

\* only wallet reads run: the orders and the requests stay as they are
SettledRequests ==
  {<<>>,
   <<[NewWithdrawal("s1", MinWithdrawal) EXCEPT !.status = "approved"]>>,
   <<[NewWithdrawal("s1", MinWithdrawal) EXCEPT !.status = "approved"],
     NewWithdrawal("s1", MinWithdrawal)>>}

InitRecomputeRace == \E ws \in SettledRequests : InitSettled(ws)

NextRecomputeRace ==
  \/ \E p \in Procs, s \in Sellers : StartRecompute(p, s)
  \/ \E p \in Procs : ReadSources(p)
  \/ \E p \in Procs : Upsert(p)

SpecRecomputeRace == InitRecomputeRace /\ [][NextRecomputeRace]_vars

(***************************************************************************)
(* Order creation: the cart split by seller inside one transaction         *)
(***************************************************************************)
CartItem(product, seller, sellerProduct, quantity, price) ==
  [product |-> product, seller |-> seller, sellerProduct |-> sellerProduct,
   quantity |-> quantity, price |-> price]

\* cart lines of the requests: three that resolve, one of them also with a
\* client price below the listing's, and one each with an unknown product, an
\* unknown listing and a listing that belongs to another seller
ItemRice == CartItem("p1", "s1", "l1", 1, 1000)
ItemRiceCheap == CartItem("p1", "s1", "l1", 1, 500)
ItemOil == CartItem("p2", "s2", "l2", 1, 500)
ItemOilPair == CartItem("p2", "s1", "l3", 2, 500)
ItemNoProduct == CartItem("px", "s2", "l2", 1, 500)
ItemNoListing == CartItem("p2", "s2", "lx", 1, 500)
ItemOtherSeller == CartItem("p1", "s2", "l1", 1, 1000)

\* why an item of seller partition sellerId cannot be ordered ("": it can)
ItemError(item, sellerId) ==
  IF item.product \notin Products THEN "OrderProductNotFound"
  ELSE IF item.sellerProduct \notin ListingIds
  THEN "OrderSellerProductNotFound"
  ELSE IF Listing(item.sellerProduct).seller # sellerId
  THEN "OrderSellerMismatch"
  ELSE ""

\* the carts of the requests: empty, one seller, two sellers, two items of one
\* seller, one product from two sellers, and carts whose first or second
\* partition fails.  The items of a partition are handled concurrently
\* (Promise.all); no cart holds a product twice in one partition.
Carts ==
  {<<>>, <<ItemRice>>, <<ItemRiceCheap>>, <<ItemRice, ItemOil>>,
   <<ItemRice, ItemOilPair>>, <<ItemOil, ItemOilPair>>,
   <<ItemRice, ItemNoProduct>>, <<ItemNoListing>>,
   <<ItemOil, ItemOtherSeller>>}

\* Object.keys(itemsBySeller): the sellers in order of first appearance
RECURSIVE SellerKeys(_, _)
SellerKeys(items, i) ==
  IF i = 0 THEN <<>>
  ELSE LET before == SellerKeys(items, i - 1)
       IN IF \E k \in 1..Len(before) : before[k] = items[i].seller
          THEN before ELSE Append(before, items[i].seller)

SellerItems(items, sellerId) ==
  LET Mine(item) == item.seller = sellerId IN SelectSeq(items, Mine)

RECURSIVE SumSeq(_, _)
SumSeq(q, i) == IF i > Len(q) THEN 0 ELSE q[i] + SumSeq(q, i + 1)

\* items.reduce((sum, item) => sum + item.price * item.quantity, 0): the
\* prices the client sent
TotalOrderValue(items) ==
  SumSeq([i \in 1..Len(items) |-> items[i].price * items[i].quantity], 1)

\* orderItems.reduce((sum, i) => sum + i.price * i.quantity, 0): the prices of
\* the seller listings
ItemsPrice(orderItems) ==
  SumSeq([i \in 1..Len(orderItems) |->
            orderItems[i].price * orderItems[i].quantity], 1)

\* totalOrderValue > 0 ? (discount || 0) * (itemsPrice / totalOrderValue) : 0
SellerDiscount(discount, itemsPrice, totalOrderValue) ==
  IF totalOrderValue > 0 THEN (discount * itemsPrice) \div totalOrderValue
  ELSE 0

\* the requests modelled are those whose discount shares are whole numbers
SharesExact(items, discount) ==
  LET tov == TotalOrderValue(items)
  IN tov > 0 =>
       \A k \in 1..Len(SellerKeys(items, Len(items))) :
         LET mine == SellerItems(items, SellerKeys(items, Len(items))[k])
             ip == SumSeq([i \in 1..Len(mine) |->
                     (IF mine[i].sellerProduct \in ListingIds
                      THEN Listing(mine[i].sellerProduct).sellerPrice ELSE 0)
                       * mine[i].quantity], 1)
         IN (discount * ip) % tov = 0

\* a mutant: no order is ever taken for a duplicate
DuplicatesNever(os, user, key, t) == {}

\* a mutant: an order with the key matches whatever its age
DuplicatesIgnoringWindow(os, user, key, t) ==
  {i \in 1..Len(os) : os[i].user = user /\ os[i].orderIdempotencyKey = key}

\* Order.findOne({user, orderIdempotencyKey, createdAt: {$gte: now - 5 min}})
Duplicates(os, user, key, t) ==
  {i \in 1..Len(os) :
     /\ os[i].user = user
     /\ os[i].orderIdempotencyKey = key
     /\ os[i].createdAt >= t - IdempotencyWindow}

\* product.totalSold = (product.totalSold || 0) + item.quantity; save(): in
\* the transaction when the save carries the session, else straight to the
\* collection.  Products are read outside the transaction.
RECURSIVE SaveSold(_, _, _, _)
SaveSold(st, mine, useSession, i) ==
  IF i > Len(mine) THEN st
  ELSE LET item == mine[i]
           total == st.db[item.product] + item.quantity
       IN SaveSold(
            IF ItemError(item, item.seller) # "" THEN st
            ELSE IF useSession
            THEN [st EXCEPT !.tx = [@ EXCEPT ![item.product] = total]]
            ELSE [st EXCEPT !.db = [@ EXCEPT ![item.product] = total]],
            mine, useSession, i + 1)

\* one pass of the loop over the seller partitions
SplitOne(st, req, sellerId) ==
  LET mine == SellerItems(req.items, sellerId)
      sold == SaveSold(st, mine, req.useSession, 1)
      orderItems == [i \in 1..Len(mine) |->
                       OrderItem(mine[i].product, mine[i].sellerProduct,
                                 mine[i].quantity)]
      itemsPrice == ItemsPrice(orderItems)
      sellerDiscount == SellerDiscount(req.discount, itemsPrice,
                                       TotalOrderValue(req.items))
      totalPrice == itemsPrice + 0 + 0 - sellerDiscount
  IN IF \E i \in 1..Len(mine) : ItemError(mine[i], sellerId) # ""
     THEN [sold EXCEPT !.failed = TRUE]
     ELSE [sold EXCEPT !.created = Append(@,
             NewOrder(req.user, sellerId, orderItems, itemsPrice,
                      req.discount, totalPrice, req.method, req.key, req.at))]

\* the loop; it ends at the first partition that fails
RECURSIVE SplitLoop(_, _, _, _)
SplitLoop(st, req, keys, k) ==
  IF k > Len(keys) \/ st.failed THEN st
  ELSE SplitLoop(SplitOne(st, req, keys[k]), req, keys, k + 1)

SplitCart(req) ==
  SplitLoop([db |-> products, tx |-> [p \in Products |-> -1],
             created |-> <<>>, failed |-> FALSE],
            req, SellerKeys(req.items, Len(req.items)), 1)

\* a mutant: the orders are saved outside the transaction
StoredOrdersNoSession(st, committed) == orders \o st.created

\* the order collection after the transaction ended
StoredOrders(st, committed) ==
  IF committed THEN orders \o st.created ELSE orders

\* the product collection after the transaction ended
StoredProducts(st, committed) ==
  [p \in Products |->
     IF committed /\ st.tx[p] # -1 THEN st.tx[p] ELSE st.db[p]]

\* createOrder and createOrderForRazorpay share their body but for the
\* payment method and the session on product.save()
PlaceOrders(req, commitOk) ==
  LET dup == IF req.key = "none" THEN {}
             ELSE Duplicates(orders, req.user, req.key, now)
  IN IF dup # {}
     THEN \E existingOrder \in dup :
            /\ resp' = [code |-> 200, orders |-> <<existingOrder>>,
                        isDuplicate |-> TRUE, user |-> req.user,
                        key |-> req.key]
            /\ UNCHANGED <<orders, products>>
     ELSE IF req.items = <<>>
     THEN /\ resp' = [Resp(400) EXCEPT !.user = req.user, !.key = req.key]
          /\ UNCHANGED <<orders, products>>
     ELSE LET st == SplitCart(req)
              committed == ~st.failed /\ commitOk
              stored == StoredOrders(st, committed)
              sold == StoredProducts(st, committed)
          IN /\ Len(stored) <= MaxStoredOrders
             /\ \A p \in Products : sold[p] <= MaxSold
             /\ orders' = stored
             /\ products' = sold
             /\ resp' = [code |-> IF committed THEN 201 ELSE 500,
                         orders |-> IF committed
                                    THEN [i \in 1..Len(st.created) |->
                                            Len(orders) + i]
                                    ELSE <<>>,
                         isDuplicate |-> FALSE, user |-> req.user,
                         key |-> req.key]

Request(body, method, useSession) ==
  [user |-> body.user, key |-> body.key, items |-> body.items,
   discount |-> body.discount, method |-> method, useSession |-> useSession,
   at |-> now]

\* req.user and req.body of the requests
Bodies ==
  {b \in [user : Users, key : Keys, items : Carts, discount : Discounts] :
     SharesExact(b.items, b.discount)}

createOrder(body, commitOk) ==
  /\ PlaceOrders(Request(body, "cod", FALSE), commitOk)
  /\ UNCHANGED <<wallets, withdrawals, now, calls, versions>>

createOrderForRazorpay(body, commitOk) ==
  /\ PlaceOrders(Request(body, "razorpay", TRUE), commitOk)
  /\ UNCHANGED <<wallets, withdrawals, now, calls, versions>>

\* time passes; the clock is read once per idempotency window
Tick ==
  /\ now + IdempotencyWindow <= MaxTime
  /\ now' = now + IdempotencyWindow
  /\ UNCHANGED <<orders, products, wallets, withdrawals, resp, calls, versions>>

InitOrders ==
  /\ orders = <<>>
  /\ products = [p \in Products |-> 0]
  /\ wallets = [s \in Sellers |-> NoWallet]
  /\ withdrawals = <<>>
  /\ now = 0
  /\ resp = Resp(0)
  /\ calls = NoCalls
  /\ versions = [s \in Sellers |-> 0]

NextOrders ==
  \/ \E body \in Bodies, commitOk \in BOOLEAN : createOrder(body, commitOk)
  \/ \E body \in Bodies, commitOk \in BOOLEAN :
       createOrderForRazorpay(body, commitOk)
  \/ Tick

SpecOrders == InitOrders /\ [][NextOrders]_vars

(***************************************************************************)
(* Interleaved order creation: two clients send carts under one key        *)
(***************************************************************************)
\* the indexes of the orders: every order of a split cart is stored with the
\* key of its request, the lookup by buyer and key is the only deduplication
OrderKeyConflict(os, user, key) == FALSE

RaceCarts == {<<ItemRice>>, <<ItemRice, ItemOil>>}
RaceBodies == {b \in Bodies : b.key = "k1" /\ b.items \in RaceCarts}

\* createOrder up to the duplicate lookup and the validation of the body
StartCreateOrder(p, body) ==
  LET req == Request(body, "cod", FALSE)
      dup == IF req.key = "none" THEN {}
             ELSE Duplicates(orders, req.user, req.key, now)
      n == calls[p].n + 1
  IN /\ calls[p].op = "idle"
     /\ calls[p].n < MaxRequests
     /\ IF dup # {}
        THEN \E existingOrder \in dup :
               /\ resp' = [code |-> 200, orders |-> <<existingOrder>>,
                           isDuplicate |-> TRUE, user |-> req.user,
                           key |-> req.key]
               /\ calls' = [calls EXCEPT ![p] = [Idle EXCEPT !.n = n]]
        ELSE IF req.items = <<>>
        THEN /\ resp' = [Resp(400) EXCEPT !.user = req.user, !.key = req.key]
             /\ calls' = [calls EXCEPT ![p] = [Idle EXCEPT !.n = n]]
        ELSE /\ resp' = resp
             /\ calls' = [calls EXCEPT ![p] =
                            [Call("createOrder", "placeOrders", "none", "none",
                                  0, TRUE, 0, NoWallet, <<>>, {})
                               EXCEPT !.n = n, !.req = req]]
     /\ UNCHANGED <<orders, products, wallets, withdrawals, now, versions>>

\* the transaction of createOrder: the loop over the seller partitions with
\* its product and order saves, and the commit
SaveOrders(p, commitOk) ==
  LET c == calls[p]
      req == [c.req EXCEPT !.at = now]
      st == SplitCart(req)
      committed == /\ ~st.failed
                   /\ commitOk
                   /\ ~OrderKeyConflict(orders, req.user, req.key)
      stored == StoredOrders(st, committed)
      sold == StoredProducts(st, committed)
  IN /\ c.pc = "placeOrders"
     /\ Len(stored) <= MaxStoredOrders
     /\ \A q \in Products : sold[q] <= MaxSold
     /\ orders' = stored
     /\ products' = sold
     /\ resp' = [code |-> IF committed THEN 201 ELSE 500,
                 orders |-> IF committed
                            THEN [i \in 1..Len(st.created) |-> Len(orders) + i]
                            ELSE <<>>,
                 isDuplicate |-> FALSE, user |-> req.user, key |-> req.key]
     /\ calls' = [calls EXCEPT ![p] = [Idle EXCEPT !.n = c.n]]
     /\ UNCHANGED <<wallets, withdrawals, now, versions>>

NextOrderRace ==
  \/ \E p \in Procs, body \in RaceBodies : StartCreateOrder(p, body)
  \/ \E p \in Procs, commitOk \in BOOLEAN : SaveOrders(p, commitOk)

SpecOrderRace == InitOrders /\ [][NextOrderRace]_vars

(***************************************************************************)
(* Payment capture for the orders of a cart                                *)
(***************************************************************************)
Payers == {"u1", "u2"}
PaymentIds == {"pay1", "pay2"}

\* HMAC-SHA256 of 'razorpay_order_id|razorpay_payment_id' under the key secret
Hmac(razorpayOrderId, paymentId) == <<"secret", razorpayOrderId, paymentId>>

\* req.body.razorpay_signature: the signature of either payment
Signatures == {Hmac("rp1", pid) : pid \in PaymentIds}

\* req.body.orderIds: one order, the two orders of a cart in either order, an
\* order of the other buyer alone or with an own one, an unknown id, one id
\* twice, none
OrderIdInputs ==
  {<<>>, <<1>>, <<1, 2>>, <<2, 1>>, <<3>>, <<1, 3>>, <<1, 4>>, <<1, 1>>}

\* the gateway's behaviour: what orders.fetch answers (an order whose amount
\* differs from the expected amount by delta paise, nothing, or an error) and
\* whether payments.capture throws
Gateways ==
  {[fetch |-> "order", delta |-> 0, capture |-> "ok"],
   [fetch |-> "order", delta |-> AmountTolerance, capture |-> "ok"],
   [fetch |-> "order", delta |-> AmountTolerance + 1, capture |-> "ok"],
   [fetch |-> "none", delta |-> 0, capture |-> "ok"],
   [fetch |-> "throws", delta |-> 0, capture |-> "ok"],
   [fetch |-> "order", delta |-> 0, capture |-> "throws"]}

\* the position in the update loop of the order whose save() throws (0: none)
SaveFailures == {0, 1, 2}

\* Order.find({_id: {$in: orderIds}}): the stored orders among the ids
RECURSIVE FoundOrders(_, _, _)
FoundOrders(os, ids, i) ==
  IF i > Len(os) THEN <<>>
  ELSE (IF \E k \in 1..Len(ids) : ids[k] = i THEN <<i>> ELSE <<>>)
         \o FoundOrders(os, ids, i + 1)

\* Math.round(orders.reduce((sum, o) => sum + (o.totalPrice || 0), 0) * 100)
TotalAmountPaise(os, found) ==
  SumSeq([k \in 1..Len(found) |-> os[found[k]].totalPrice], 1) * 100

AbsDiff(a, b) == IF a >= b THEN a - b ELSE b - a

\* a mutant: the owner of the orders is not looked at
CaptureCheckAnyOwner(user, ids, paymentId, signature, gateway) ==
  LET found == FoundOrders(orders, ids, 1)
      expected == TotalAmountPaise(orders, found)
  IN IF ids = <<>> THEN 400
     ELSE IF Hmac("rp1", paymentId) # signature THEN 400
     ELSE IF Len(found) # Len(ids) THEN 404
     ELSE IF gateway.fetch = "throws" THEN 502
     ELSE IF gateway.fetch = "none" THEN 400
     ELSE IF AbsDiff(expected + gateway.delta, expected) > AmountTolerance
     THEN 400
     ELSE IF gateway.capture = "throws" THEN 502
     ELSE 200

\* the checks before the orders are updated: the status they answer, 200 when
\* all pass and the payment is captured
CaptureCheck(user, ids, paymentId, signature, gateway) ==
  LET found == FoundOrders(orders, ids, 1)
      expected == TotalAmountPaise(orders, found)
  IN IF ids = <<>> THEN 400
     ELSE IF Hmac("rp1", paymentId) # signature THEN 400
     ELSE IF Len(found) # Len(ids) THEN 404
     ELSE IF \E k \in 1..Len(found) : orders[found[k]].user # user THEN 403
     ELSE IF gateway.fetch = "throws" THEN 502
     ELSE IF gateway.fetch = "none" THEN 400
     ELSE IF AbsDiff(expected + gateway.delta, expected) > AmountTolerance
     THEN 400
     ELSE IF gateway.capture = "throws" THEN 502
     ELSE 200

\* instance.payments.capture is called: no check before it returned, and
\* orders.fetch did not throw
CaptureCalled(user, ids, paymentId, signature, gateway) ==
  LET code == CaptureCheck(user, ids, paymentId, signature, gateway)
  IN code = 200 \/ (code = 502 /\ gateway.fetch # "throws")

\* a mutant: the orders are marked paid before the gateway is called
SavesDoneBeforeCapture(code, n, failAt) ==
  IF code \notin {200, 502} THEN 0
  ELSE IF failAt = 0 \/ failAt > n THEN n ELSE failAt - 1

\* how many of the n orders the update loop saves: all, or those before the
\* one whose save() throws
SavesDone(code, n, failAt) ==
  IF code # 200 THEN 0
  ELSE IF failAt = 0 \/ failAt > n THEN n ELSE failAt - 1

\* the loop body: the order as paid
PaidOrder(o, paymentId) ==
  [o EXCEPT !.paymentStatus = "paid", !.orderStatus = "confirmed",
            !.paymentMethod = "razorpay", !.paymentResult = paymentId]

capturePaymentForOrders(user, ids, paymentId, signature, gateway, failAt) ==
  LET found == FoundOrders(orders, ids, 1)
      code == CaptureCheck(user, ids, paymentId, signature, gateway)
      done == SavesDone(code, Len(found), failAt)
  IN /\ orders' = [i \in 1..Len(orders) |->
                     IF \E k \in 1..done : found[k] = i
                     THEN PaidOrder(orders[i], paymentId) ELSE orders[i]]
     /\ resp' = IF code = 200 /\ done = Len(found)
                THEN [Resp(200) EXCEPT !.orders = found, !.user = user]
                ELSE [Resp(IF code = 200 THEN 500 ELSE code)
                        EXCEPT !.user = user]
     /\ UNCHANGED <<products, wallets, withdrawals, now, calls, versions>>

\* the orders of a two-seller razorpay cart of buyer u1 and one order of
\* buyer u2, all awaiting payment
InitPayment ==
  /\ orders = <<[PlacedOrder("l1") EXCEPT !.paymentMethod = "razorpay"],
                [PlacedOrder("l2") EXCEPT !.paymentMethod = "razorpay"],
                [PlacedOrder("l3") EXCEPT !.paymentMethod = "razorpay",
                                          !.user = "u2"]>>
  /\ products = [p \in Products |-> SoldIn(orders, p, 1)]
  /\ wallets = [s \in Sellers |-> NoWallet]
  /\ withdrawals = <<>>
  /\ now = 0
  /\ resp = Resp(0)
  /\ calls = NoCalls
  /\ versions = [s \in Sellers |-> 0]

NextPayment ==
  \E user \in Payers, ids \in OrderIdInputs, paymentId \in PaymentIds,
     signature \in Signatures, gateway \in Gateways, failAt \in SaveFailures :
    capturePaymentForOrders(user, ids, paymentId, signature, gateway, failAt)

SpecPayment == InitPayment /\ [][NextPayment]_vars

(***************************************************************************)
(* Properties of the ledger                                                *)
(***************************************************************************)
SignedAmount(t) == IF t.type = "credit" THEN t.amount ELSE 0 - t.amount

\* each entry's snapshot is the previous snapshot (0 before the first entry)
\* plus its signed amount
ChainHolds(txs) ==
  \A i \in 1..Len(txs) :
    txs[i].balance =
      (IF i = 1 THEN 0 ELSE txs[i - 1].balance) + SignedAmount(txs[i])

\* sum of the amounts of a seller's requests in one of the given states
RECURSIVE SumRequests(_, _, _, _)
SumRequests(ws, s, statuses, i) ==
  IF i > Len(ws) THEN 0
  ELSE (IF ws[i].seller = s /\ ws[i].status \in statuses
        THEN ws[i].amount ELSE 0) + SumRequests(ws, s, statuses, i + 1)

\* number of credit entries of a wallet that reference an order
CreditCount(w, id) ==
  Cardinality({j \in 1..Len(w.transactions) :
                 /\ w.transactions[j].type = "credit"
                 /\ w.transactions[j].orderId = id})

\* C1: in every wallet, each ledger entry's balance snapshot equals the
\* previous entry's snapshot plus (credit) or minus (debit) its amount, and
\* the wallet balance equals the last entry's snapshot.
C1_RunningBalanceChain ==
  \A s \in Sellers :
    LET w == wallets[s]
    IN /\ ChainHolds(w.transactions)
       /\ Len(w.transactions) > 0 =>
            w.balance = w.transactions[Len(w.transactions)].balance

\* C2: between operations every wallet satisfies
\* balance = totalEarnings - totalWithdrawn - pendingWithdrawals.
C2_BalanceEquation ==
  \A s \in Sellers :
    wallets[s].balance =
      wallets[s].totalEarnings - wallets[s].totalWithdrawn
        - wallets[s].pendingWithdrawals

\* C2 witness: a wallet with earnings, a processed withdrawal and a hold
C2_Witness ==
  \E s \in Sellers :
    /\ wallets[s].totalEarnings > 0
    /\ wallets[s].totalWithdrawn > 0
    /\ wallets[s].pendingWithdrawals > 0

\* C3: between operations a wallet's pendingWithdrawals equals the sum of the
\* amounts of the seller's requests that are pending or approved.
C3_PendingMatchesRequests ==
  \A s \in Sellers :
    wallets[s].pendingWithdrawals =
      SumRequests(withdrawals, s, {"pending", "approved"}, 1)

LegalTransition(from, to) ==
  \/ to = from
  \/ from = "pending" /\ to \in {"approved", "rejected"}
  \/ from = "approved" /\ to = "processed"

\* C4: a request's status moves only pending->approved, approved->processed
\* or pending->rejected; approve or reject on a request that is not pending
\* and process on one that is not approved answer 400 and change neither the
\* requests nor the wallets; rejected and processed requests never change.
C4_LegalTransitions ==
  [][\A id \in WithdrawalIds :
       /\ withdrawals'[id].seller = withdrawals[id].seller
       /\ withdrawals'[id].amount = withdrawals[id].amount
       /\ LegalTransition(withdrawals[id].status, withdrawals'[id].status)
       /\ withdrawals[id].status \in {"rejected", "processed"} =>
            withdrawals'[id] = withdrawals[id]
       /\ (approveWithdrawal(id) \/ rejectWithdrawal(id)) /\
          withdrawals[id].status # "pending" =>
            resp'.code = 400 /\ UNCHANGED <<withdrawals, wallets>>
       /\ processWithdrawal(id) /\ withdrawals[id].status # "approved" =>
            resp'.code = 400 /\ UNCHANGED <<withdrawals, wallets>>]_vars

\* C4 witness: a refused attempt with one request processed, one rejected
C4_Witness ==
  /\ resp.code = 400
  /\ \E i \in WithdrawalIds : withdrawals[i].status = "processed"
  /\ \E i \in WithdrawalIds : withdrawals[i].status = "rejected"

\* C5: a seller never has two pending requests, and a create made while one
\* is pending answers 400 and stores no request.
C5_OnePendingPerSeller ==
  /\ [](\A s \in Sellers : \A i, j \in WithdrawalIds :
          /\ withdrawals[i].seller = s /\ withdrawals[i].status = "pending"
          /\ withdrawals[j].seller = s /\ withdrawals[j].status = "pending"
          => i = j)
  /\ [][\A s \in Sellers, amount \in WithdrawAmounts, p \in PayoutInputs :
          createWithdrawalRequest(s, amount, p.method, p.details) /\
          (\E i \in WithdrawalIds :
             withdrawals[i].seller = s /\ withdrawals[i].status = "pending") =>
            resp'.code = 400 /\ UNCHANGED <<withdrawals, wallets>>]_vars

\* C5 witness: a create was refused while the seller had a pending request
\* and balance enough for the smallest withdrawal
C5_Witness ==
  /\ resp.code = 400
  /\ \E s \in Sellers :
       /\ CountPending(withdrawals, s) = 1
       /\ wallets[s].balance >= MinWithdrawal
       /\ Len(withdrawals) < MaxWithdrawals

\* C6: an order that has been set to delivered has exactly one credit entry in
\* its seller's wallet, however often its status is set again; an order never
\* delivered has none; isEarningsCredited never goes back to false.
C6_CreditedExactlyOnce ==
  /\ [](\A id \in OrderIds :
          /\ CreditCount(wallets[orders[id].seller], id) =
               (IF orders[id].isEarningsCredited THEN 1 ELSE 0)
          /\ orders[id].orderStatus = "delivered" =>
               orders[id].isEarningsCredited)
  /\ [][\A id \in OrderIds :
          orders[id].isEarningsCredited => orders'[id].isEarningsCredited]_vars

\* C6 witness: a credited order whose status was set again after delivery,
\* with the wallet holding the credit
C6_Witness ==
  \E id \in OrderIds :
    /\ orders[id].isEarningsCredited
    /\ orders[id].orderStatus = "cancelled"
    /\ wallets[orders[id].seller].totalEarnings > 0

\* C11: a create that answers 201 stores one pending request of amount A
\* (A >= 100, balance >= A, no pending request before), lowers the seller's
\* balance by A, raises pendingWithdrawals by A, leaves totalEarnings and
\* totalWithdrawn alone and appends one debit entry of status pending that
\* references the request; no other wallet changes.
C11_CreateHoldsFunds ==
  [][Len(withdrawals') = Len(withdrawals) + 1 /\ resp'.code = 201 =>
       LET id == Len(withdrawals')
           wr == withdrawals'[id]
           w == wallets[wr.seller]
           held == wallets'[wr.seller]
           n == Len(w.transactions)
       IN /\ SubSeq(withdrawals', 1, Len(withdrawals)) = withdrawals
          /\ wr.status = "pending"
          /\ wr.amount >= MinWithdrawal
          /\ w.balance >= wr.amount
          /\ \A i \in WithdrawalIds :
               withdrawals[i].seller = wr.seller =>
                 withdrawals[i].status # "pending"
          /\ held.balance = w.balance - wr.amount
          /\ held.pendingWithdrawals = w.pendingWithdrawals + wr.amount
          /\ held.totalEarnings = w.totalEarnings
          /\ held.totalWithdrawn = w.totalWithdrawn
          /\ Len(held.transactions) = n + 1
          /\ SubSeq(held.transactions, 1, n) = w.transactions
          /\ held.transactions[n + 1].type = "debit"
          /\ held.transactions[n + 1].status = "pending"
          /\ held.transactions[n + 1].amount = wr.amount
          /\ held.transactions[n + 1].withdrawalId = id
          /\ \A t \in Sellers \ {wr.seller} : wallets'[t] = wallets[t]]_vars

\* C11 witness: the second request of a seller was just created and holds
\* funds next to an amount already withdrawn
C11_Witness ==
  /\ resp.code = 201
  /\ Len(withdrawals) = 2
  /\ withdrawals[2].status = "pending"
  /\ LET w == wallets[withdrawals[2].seller]
     IN /\ w.pendingWithdrawals = withdrawals[2].amount
        /\ w.totalWithdrawn > 0
        /\ w.transactions[Len(w.transactions)].withdrawalId = 2

AsCreated(w, id) ==
  /\ Len(w.transactions) > 0
  /\ LET last == w.transactions[Len(w.transactions)]
     IN /\ last.withdrawalId = id
        /\ last.type = "debit"
        /\ last.status = "pending"
        /\ last.balance = w.balance
  /\ w.balance >= 0

\* C13: rejecting a request of amount A right after its creation puts
\* balance and pendingWithdrawals back (balance + A, pendingWithdrawals - A,
\* which undoes the creation's - A and + A), leaves totalEarnings and
\* totalWithdrawn alone and appends one credit entry of amount A and status
\* completed.
C13_RejectUndoesCreate ==
  [][\A id \in WithdrawalIds :
       /\ withdrawals[id].status = "pending"
       /\ withdrawals'[id].status = "rejected"
       /\ AsCreated(wallets[withdrawals[id].seller], id)
       => LET A == withdrawals[id].amount
              w == wallets[withdrawals[id].seller]
              back == wallets'[withdrawals[id].seller]
              n == Len(w.transactions)
          IN /\ back.balance = w.balance + A
             /\ back.pendingWithdrawals = w.pendingWithdrawals - A
             /\ back.totalEarnings = w.totalEarnings
             /\ back.totalWithdrawn = w.totalWithdrawn
             /\ Len(back.transactions) = n + 1
             /\ SubSeq(back.transactions, 1, n) = w.transactions
             /\ back.transactions[n + 1].type = "credit"
             /\ back.transactions[n + 1].status = "completed"
             /\ back.transactions[n + 1].amount = A
             /\ back.transactions[n + 1].withdrawalId = id]_vars

\* C13 witness: a request created and rejected, the wallet holding nothing
\* and owning its earnings again, the log ending debit, credit
C13_Witness ==
  \E id \in WithdrawalIds :
    LET w == wallets[withdrawals[id].seller]
        n == Len(w.transactions)
    IN /\ withdrawals[id].status = "rejected"
       /\ n >= 3
       /\ w.transactions[n].type = "credit"
       /\ w.transactions[n].withdrawalId = id
       /\ w.transactions[n - 1].type = "debit"
       /\ w.transactions[n - 1].withdrawalId = id
       /\ w.pendingWithdrawals = 0
       /\ w.balance = w.totalEarnings
       /\ w.totalEarnings > 0

\* C14: processing an approved request of amount A leaves balance and
\* totalEarnings as they were, lowers pendingWithdrawals by A and raises
\* totalWithdrawn by A.
C14_ProcessSettlesHold ==
  [][\A id \in WithdrawalIds :
       /\ withdrawals[id].status = "approved"
       /\ withdrawals'[id].status = "processed"
       => LET A == withdrawals[id].amount
              w == wallets[withdrawals[id].seller]
              settled == wallets'[withdrawals[id].seller]
          IN /\ settled.balance = w.balance
             /\ settled.totalEarnings = w.totalEarnings
             /\ settled.pendingWithdrawals = w.pendingWithdrawals - A
             /\ settled.totalWithdrawn = w.totalWithdrawn + A]_vars

C18_RecomputeIgnoresStoredWallet ==
  [][\A s \in Sellers :
       recomputeWalletForSeller(s) =>
         wallets'[s] = RecomputeFrom(NoWallet, orders, withdrawals, s)]_vars

\* C18 witness: the order's earnings had been credited, the order then left
\* delivered, and the wallet shows no earnings: the stored credit was
\* discarded
C18_Witness ==
  \E id \in OrderIds :
    LET w == wallets[orders[id].seller]
    IN /\ orders[id].isEarningsCredited
       /\ orders[id].orderStatus # "delivered"
       /\ w.exists
       /\ w.totalEarnings = 0
       /\ w.transactions = <<>>

(***************************************************************************)
(* Properties of payment capture                                           *)
(***************************************************************************)
PaymentFields(o) ==
  <<o.paymentStatus, o.orderStatus, o.paymentMethod, o.paymentResult>>

\* C15: a capture that ends in a failed check (bad signature, an order not
\* found, an order of another buyer, amount mismatch, a gateway error: the
\* answers 400, 403, 404, 502) changes no order's paymentStatus, orderStatus,
\* paymentMethod or paymentResult.
C15_CaptureFailureChangesNothing ==
  [][resp'.code \in {400, 403, 404, 502} =>
       \A i \in OrderIds : PaymentFields(orders'[i]) = PaymentFields(orders[i])]_vars

\* C15 witness: a refused capture after an earlier capture had paid the two
\* orders of the cart, which are as that capture left them
C15_Witness ==
  /\ resp.code \in {400, 403, 404, 502}
  /\ orders[1].paymentResult = "pay1"
  /\ orders[2].paymentResult = "pay1"
  /\ orders[3].paymentStatus = "pending"

\* C16: a capture step changes orders only when it answers 200, and then
\* every listed order is paid and confirmed: never some of the listed orders
\* paid and the others not.
C16_CaptureAllOrNothing ==
  [][/\ (\E i \in OrderIds : orders'[i] # orders[i]) => resp'.code = 200
     /\ resp'.code = 200 =>
          \A k \in 1..Len(resp'.orders) :
            /\ orders'[resp'.orders[k]].paymentStatus = "paid"
            /\ orders'[resp'.orders[k]].orderStatus = "confirmed"]_vars

(***************************************************************************)
(* Properties of order creation                                            *)
(***************************************************************************)
\* the orders stored together with order i by the request that created it
CreatedWith(os, i) ==
  SelectSeq([k \in 1..Len(os) |-> k],
            LAMBDA k : /\ os[k].user = os[i].user
                       /\ os[k].orderIdempotencyKey = os[i].orderIdempotencyKey
                       /\ os[k].createdAt = os[i].createdAt)

\* a step of createOrder or createOrderForRazorpay answered a request
CreateStep == now' = now /\ resp'.code # 0

\* C7: a create request whose user and idempotency key match an order stored
\* within the last five minutes is answered as a duplicate and writes neither
\* orders nor products, so one set of orders exists for the key.
C7_DuplicateWritesNothing ==
  [][CreateStep /\ resp'.key # "none" /\
     (\E i \in OrderIds :
        /\ orders[i].user = resp'.user
        /\ orders[i].orderIdempotencyKey = resp'.key
        /\ orders[i].createdAt + IdempotencyWindow >= now) =>
       resp'.isDuplicate /\ UNCHANGED <<orders, products>>]_vars

\* C7 witness: a duplicate answer at the edge of the window, sold counts and
\* orders as the first request left them
C7_Witness ==
  /\ resp.isDuplicate
  /\ Len(orders) = 1
  /\ orders[1].createdAt + IdempotencyWindow = now
  /\ products["p1"] = 1

\* C8: the duplicate answer lists all the orders the first request created,
\* for a cart of one seller and for a cart of several sellers.
C8_DuplicateReturnsAllOrders ==
  resp.isDuplicate => resp.orders = CreatedWith(orders, resp.orders[1])

\* C9: a create request that does not answer 201 leaves the stored orders as
\* they were, also when partitions before the failing one had built their
\* orders or when the commit fails; a 201 stores the orders it lists.
C9_FailureStoresNoOrder ==
  [][CreateStep =>
       IF resp'.code = 201
       THEN /\ Len(orders') = Len(orders) + Len(resp'.orders)
            /\ SubSeq(orders', 1, Len(orders)) = orders
       ELSE orders' = orders]_vars

\* C9 witness: a failed request whose first partition had been handled (its
\* product's sold count moved) and no order stored
C9_Witness ==
  /\ resp.code = 500
  /\ orders = <<>>
  /\ products["p1"] > 0

\* C10: a create request that fails leaves every product's totalSold as it
\* was.
C10_SoldCountsRollBack ==
  [][CreateStep /\ resp'.code # 201 => products' = products]_vars

\* C19: the orders a create request stores share its discount D in proportion
\* to their subtotals: each order's share (itemsPrice - totalPrice) is
\* D * subtotal / (sum of the subtotals), and the shares sum to D.
C19_DiscountSharesSumToDiscount ==
  [][CreateStep /\ resp'.code = 201 =>
       LET new == resp'.orders
           D == orders'[new[1]].discount
           subtotals == [k \in 1..Len(new) |-> orders'[new[k]].itemsPrice]
           shares == [k \in 1..Len(new) |->
                        orders'[new[k]].itemsPrice - orders'[new[k]].totalPrice]
       IN /\ \A k \in 1..Len(new) :
               shares[k] * SumSeq(subtotals, 1) = D * subtotals[k]
          /\ SumSeq(shares, 1) = D]_vars

\* C20: every stored order has
\* totalPrice = itemsPrice + shippingPrice + taxPrice - discount, with the
\* discount stored on the order.
C20_TotalPriceIdentity ==
  \A i \in OrderIds :
    orders[i].totalPrice =
      orders[i].itemsPrice + orders[i].shippingPrice + orders[i].taxPrice
        - orders[i].discount

\* C27 witness: a wallet whose log holds an earnings credit, the completed
\* debit of a processed withdrawal and the debit and refund of a rejected one
C27_Witness ==
  \E s \in Sellers :
    LET log == wallets[s].transactions
    IN /\ wallets[s].totalWithdrawn > 0
       /\ wallets[s].balance > 0
       /\ \E i \in 1..Len(log) : log[i].orderId # 0
       /\ \E i \in 1..Len(log) :
            log[i].type = "debit" /\ log[i].status = "completed"
       /\ \E i \in 1..Len(log) : log[i].description = "refunded"

\* C28: a create that fails a rule (amount below 100, a pending request of
\* the seller, or destination details missing for the payout method: account
\* number and IFSC for bank_transfer, UPI id for upi, wallet number for paytm
\* and phonepe) answers with an error, stores no request and leaves every
\* wallet as it was.
C28_FailedCreateWritesNothing ==
  [][\A s \in Sellers, amount \in WithdrawAmounts, p \in PayoutInputs :
       /\ createWithdrawalRequest(s, amount, p.method, p.details)
       /\ \/ amount < 100
          \/ \E i \in WithdrawalIds :
               withdrawals[i].seller = s /\ withdrawals[i].status = "pending"
          \/ p.method = "bank_transfer" /\
               ~(p.details.accountNumber /\ p.details.ifscCode)
          \/ p.method = "upi" /\ ~p.details.upiId
          \/ p.method \in {"paytm", "phonepe"} /\ ~p.details.walletNumber
       => /\ resp'.code \in {400, 500}
          /\ UNCHANGED <<withdrawals, wallets>>]_vars

\* C28 witness: a create with enough balance and no request stored was
\* refused for its destination details
C28_Witness ==
  /\ resp.code = 500
  /\ withdrawals = <<>>
  /\ \E s \in Sellers : wallets[s].balance >= 500

(***************************************************************************)
(* Properties of the delivery credit                                       *)
\* C27: between operations a wallet's balance equals the sum of the amounts
\* of the credit entries of its log minus the sum of the amounts of its debit
\* entries.
C27_BalanceIsSumOfEntries ==
  \A s \in Sellers :
    wallets[s].balance =
      SumSeq([i \in 1..Len(wallets[s].transactions) |->
                SignedAmount(wallets[s].transactions[i])], 1)

(***************************************************************************)
\* C21: when the credit of an order that is being set to delivered fails (the
\* wallet is left without an entry for the order), the order is still stored
\* as delivered, and a recompute for its seller run next leaves a wallet with
\* exactly one credit entry for the order.
C21_FailedCreditIsRepairable ==
  [][\A id \in OrderIds :
       /\ updateOrderStatus(id, "delivered")
       /\ ~orders[id].isEarningsCredited
       /\ CreditCount(wallets'[orders[id].seller], id) = 0
       => /\ orders'[id].orderStatus = "delivered"
          /\ resp'.code = 200
          /\ CreditCount(RecomputeFrom(wallets'[orders[id].seller], orders',
                                       withdrawals', orders[id].seller),
                         id) = 1]_vars

\* C21 witness: a delivered order flagged as credited whose seller's wallet
\* holds no entry for it and could not take its earnings
C21_Witness ==
  \E id \in OrderIds :
    LET w == wallets[orders[id].seller]
    IN /\ orders[id].orderStatus = "delivered"
       /\ orders[id].isEarningsCredited
       /\ CreditCount(w, id) = 0
       /\ w.balance + orders[id].sellerEarnings < 0
       /\ resp.code = 200

\* C22: in every reachable state the balance, totalEarnings, totalWithdrawn
\* and pendingWithdrawals of every wallet are at least 0.
C22_AggregatesNonNegative ==
  \A s \in Sellers :
    /\ wallets[s].balance >= 0
    /\ wallets[s].totalEarnings >= 0
    /\ wallets[s].totalWithdrawn >= 0
    /\ wallets[s].pendingWithdrawals >= 0

\* the amounts of the entries of w that credit order id
CreditAmounts(w, id) ==
  {w.transactions[i].amount : i \in
     {j \in 1..Len(w.transactions) :
        w.transactions[j].type = "credit" /\ w.transactions[j].orderId = id}}

\* C30: setting an order without commission to delivered stores commission =
\* 10% of totalPrice and sellerEarnings = totalPrice minus that (100 and 900
\* for 1000) and, when the credit is written, raises totalEarnings by
\* sellerEarnings with an entry of that amount; the entries that recompute and
\* the admin resyncs write for the order carry the same amount.
C30_TenPercentCommission ==
  [][\A id \in OrderIds :
       LET o == orders[id]
           s == o.seller
           tenth == o.totalPrice \div 10
           net == o.totalPrice - tenth
       IN /\ updateOrderStatus(id, "delivered") /\ ~o.isEarningsCredited /\
             o.commission = 0
             => /\ orders'[id].commission = tenth
                /\ orders'[id].sellerEarnings = net
                /\ o.totalPrice = 1000 => orders'[id].sellerEarnings = 900
                /\ CreditCount(wallets'[s], id) > CreditCount(wallets[s], id)
                   => /\ CreditAmounts(wallets'[s], id) = {net}
                      /\ wallets'[s].totalEarnings =
                           wallets[s].totalEarnings + net
          /\ (adminResyncOrderToWallet(id) \/ adminResyncSellerWallet(s)) /\
             CreditCount(wallets'[s], id) > CreditCount(wallets[s], id)
             => /\ CreditAmounts(wallets'[s], id) = {net}
                /\ orders'[id].sellerEarnings = net
                /\ orders'[id].commission = tenth
          /\ recomputeWalletForSeller(s) /\ o.orderStatus = "delivered"
             => CreditAmounts(wallets'[s], id) = {net}]_vars

\* C30 witness: the order of 1000 is delivered with commission 100 and
\* earnings 900, and its seller's wallet, rebuilt by a recompute (the entry
\* carries the balance after it), credits 900 for it
C30_Witness ==
  /\ orders[1].totalPrice = 1000
  /\ orders[1].orderStatus = "delivered"
  /\ orders[1].commission = 100
  /\ orders[1].sellerEarnings = 900
  /\ LET log == wallets[orders[1].seller].transactions
     IN \E i \in 1..Len(log) :
          /\ log[i].orderId = 1 /\ log[i].type = "credit"
          /\ log[i].amount = 900 /\ log[i].balance = 900

(***************************************************************************)
(* Properties of interleaved requests                                      *)
(***************************************************************************)
\* C23: the pending-request check of createWithdrawalRequest and its writes
\* are not atomic.  A create that has passed the check stores its request
\* whatever was stored since, so that a seller can have two pending requests;
\* the wallet then holds less than the two amounts.
C23_CheckAndWriteNotAtomic ==
  /\ [][\A p \in Procs :
          /\ calls[p].pc = "createRequest"
          /\ calls[p].details
          /\ calls'[p] # calls[p]
          => /\ withdrawals' =
                  Append(withdrawals,
                         [seller |-> calls[p].seller,
                          amount |-> calls[p].amount, status |-> "pending"])
             /\ calls'[p].pc = "saveHold"]_vars
  /\ [](\A i, j \in WithdrawalIds :
          /\ i # j
          /\ withdrawals[i].seller = withdrawals[j].seller
          /\ withdrawals[i].status = "pending"
          /\ withdrawals[j].status = "pending"
          => wallets[withdrawals[i].seller].pendingWithdrawals <
               withdrawals[i].amount + withdrawals[j].amount)

\* C23 witness: both creates have answered, two requests of one seller are
\* pending and the wallet holds the amount of one of them
C23_Witness ==
  /\ \A p \in Procs : calls[p].op = "idle"
  /\ resp.code = 201
  /\ Len(withdrawals) = 2
  /\ withdrawals[1].seller = withdrawals[2].seller
  /\ withdrawals[1].status = "pending"
  /\ withdrawals[2].status = "pending"
  /\ wallets[withdrawals[1].seller].pendingWithdrawals = withdrawals[2].amount
  /\ Len(wallets[withdrawals[1].seller].transactions) >= 3

\* C24: the mutations of a seller's wallet are serialized.  When a credit for
\* an order is written to a wallet that holds no credit for that order (and
\* no withdrawal has touched the wallet), the stored log keeps its entries and
\* gains one, and the stored balance and totalEarnings each rise by the
\* credited amount, whatever other credit was written since the wallet was
\* loaded.
C24_CreditsSerialized ==
  [][\A p \in Procs :
       LET c == calls[p]
           w == wallets[c.seller]
           n == Len(w.transactions)
       IN /\ c.pc = "credit"
          /\ calls'[p] # c
          /\ withdrawals = <<>>
          /\ CreditCount(w, c.todo[1].id) = 0
          /\ Len(wallets'[c.seller].transactions) = n + 1
          => /\ SubSeq(wallets'[c.seller].transactions, 1, n) = w.transactions
             /\ wallets'[c.seller].balance = w.balance + c.todo[1].sellerEarnings
             /\ wallets'[c.seller].totalEarnings =
                  w.totalEarnings + c.todo[1].sellerEarnings]_vars

\* C25: crediting is at most once under interleaved requests: at any moment
\* the wallet of an order's seller holds at most one credit entry for the
\* order, and totalEarnings is at most the sum of the earnings of the
\* seller's orders.
C25_AtMostOneCreditInterleaved ==
  \A id \in OrderIds :
    LET w == wallets[orders[id].seller]
    IN /\ CreditCount(w, id) <= 1
       /\ w.totalEarnings <=
            SumSeq([i \in OrderIds |->
                      IF orders[i].seller = orders[id].seller
                      THEN orders[i].totalPrice - Commission(orders[i].totalPrice)
                      ELSE 0], 1)

\* C29: the idempotency check matches only orders created within the last 5
\* minutes.  A request whose buyer's orders with its key are all older is not
\* answered as a duplicate and, when it succeeds (201), stores new orders
\* created now under its key; an order returned as a duplicate is at
\* most 5 minutes old; a request without a key is never answered as a
\* duplicate.
C29_IdempotencyWindow ==
  [][CreateStep =>
       /\ (\A i \in OrderIds :
             orders[i].user = resp'.user /\
             orders[i].orderIdempotencyKey = resp'.key =>
               now - orders[i].createdAt > 5)
          => /\ ~resp'.isDuplicate
             /\ resp'.code \in {201, 400, 500}
             /\ resp'.code = 201 =>
                  /\ Len(orders') > Len(orders)
                  /\ \A k \in (Len(orders) + 1)..Len(orders') :
                       /\ orders'[k].createdAt = now
                       /\ orders'[k].orderIdempotencyKey = resp'.key
       /\ resp'.isDuplicate =>
            /\ resp'.key # "none"
            /\ now - orders[resp'.orders[1]].createdAt <= 5
            /\ UNCHANGED orders
       /\ resp'.key = "none" => ~resp'.isDuplicate]_vars

\* C29 witness: a buyer's orders with one key stored more than 5 minutes
\* apart, the later one just created
C29_Witness ==
  /\ resp.code = 201
  /\ \E i, j \in OrderIds :
       /\ orders[i].user = orders[j].user
       /\ orders[i].orderIdempotencyKey = "k1"
       /\ orders[j].orderIdempotencyKey = "k1"
       /\ orders[j].createdAt = now
       /\ orders[j].createdAt - orders[i].createdAt > 5

(***************************************************************************)
(* Properties of the prices of created orders                              *)
(***************************************************************************)
\* two request bodies that differ at most in the price field of their items
SameButPrices(a, b) ==
  /\ a.user = b.user /\ a.key = b.key /\ a.discount = b.discount
  /\ Len(a.items) = Len(b.items)
  /\ \A i \in 1..Len(a.items) :
       [a.items[i] EXCEPT !.price = 0] = [b.items[i] EXCEPT !.price = 0]

\* C26: the prices the client sends do not influence the stored orders: the
\* orders a request creates have the item prices, itemsPrice and totalPrice
\* of the orders that any request differing only in its items' price fields
\* would have created in the same state.
C26_ClientPricesIgnored ==
  [][\A body, other \in Bodies :
       /\ createOrder(body, TRUE) \/ createOrderForRazorpay(body, TRUE)
       /\ resp'.code = 201
       /\ SameButPrices(body, other)
       => LET theirs == SplitCart(Request(other, "cod", FALSE)).created
              n == Len(orders)
          IN /\ Len(orders') = n + Len(theirs)
             /\ \A k \in 1..Len(theirs) :
                  /\ orders'[n + k].orderItems = theirs[k].orderItems
                  /\ orders'[n + k].itemsPrice = theirs[k].itemsPrice
                  /\ orders'[n + k].totalPrice = theirs[k].totalPrice]_vars

(***************************************************************************)
(* Properties of interleaved reconciliation                                *)
(***************************************************************************)
\* C31: while the orders and the requests do not change, every write of
\* interleaved recomputeWalletForSeller runs leaves the seller's one wallet
\* equal to the document a single run produces, so that the wallet after two
\* runs finished is the wallet after one
C31_ConcurrentRecomputeIsOneRun ==
  [][\A s \in Sellers :
       wallets'[s] # wallets[s] =>
         wallets'[s] = RecomputedWallet(orders, withdrawals, s)]_vars

\* both runs read the sources of s1 before either wrote, and the stored
\* wallet is not yet the document they computed
C31_Witness ==
  /\ \A p \in Procs :
       /\ calls[p].pc = "upsert"
       /\ calls[p].seller = "s1"
  /\ wallets["s1"] # calls["a"].wallet

(***************************************************************************)
(* Properties of the rebuilt wallet                                        *)
(***************************************************************************)
\* sum of the earnings of a seller's orders in status delivered
DeliveredEarnings(os, s) ==
  SumSeq([i \in 1..Len(os) |->
            IF os[i].seller = s /\ os[i].orderStatus = "delivered"
            THEN FrozenEarnings(os[i]) ELSE 0], 1)

\* the entries of a log that reference a withdrawal request
EntriesOf(txs, id) == {j \in 1..Len(txs) : txs[j].withdrawalId = id}

\* the entries of a rejected request: a debit and, right after it, a credit
\* of the request's amount
DebitThenRefund(txs, id, amount) ==
  \E j \in 1..Len(txs) :
    /\ EntriesOf(txs, id) = {j, j + 1}
    /\ j + 1 <= Len(txs)
    /\ txs[j].type = "debit" /\ txs[j].amount = amount
    /\ txs[j + 1].type = "credit" /\ txs[j + 1].amount = amount

\* C32: after recomputeWalletForSeller the wallet's totalEarnings is the sum
\* of the earnings of the seller's delivered orders, pendingWithdrawals the
\* sum of the pending and approved requests, totalWithdrawn the sum of the
\* processed requests, each rejected request has a debit entry followed at
\* once by a credit entry of its amount, and balance is totalEarnings minus
\* totalWithdrawn minus pendingWithdrawals.
C32_RecomputedAggregates ==
  [][\A s \in Sellers :
       recomputeWalletForSeller(s) =>
         LET w == wallets'[s]
         IN /\ w.totalEarnings = DeliveredEarnings(orders, s)
            /\ w.pendingWithdrawals =
                 SumRequests(withdrawals, s, {"pending", "approved"}, 1)
            /\ w.totalWithdrawn =
                 SumRequests(withdrawals, s, {"processed"}, 1)
            /\ \A id \in WithdrawalIds :
                 withdrawals[id].seller = s
                 /\ withdrawals[id].status = "rejected" =>
                   DebitThenRefund(w.transactions, id, withdrawals[id].amount)
            /\ w.balance =
                 w.totalEarnings - w.totalWithdrawn - w.pendingWithdrawals]_vars

\* C32 witness: a rebuilt wallet (its first credit's snapshot includes the
\* credit) of a seller with a delivered order, a rejected request and one
\* whose hold is counted
C32_Witness ==
  \E s \in Sellers :
    LET w == wallets[s]
    IN /\ w = RecomputeFrom(w, orders, withdrawals, s)
       /\ DeliveredEarnings(orders, s) > 0
       /\ w.transactions[1].balance = w.totalEarnings
       /\ \E id \in WithdrawalIds :
            withdrawals[id].seller = s /\ withdrawals[id].status = "rejected"
       /\ w.pendingWithdrawals > 0

\* the four aggregates of a wallet
Aggregates(w) ==
  <<w.balance, w.totalEarnings, w.totalWithdrawn, w.pendingWithdrawals>>

\* every order of the seller that was credited is in status delivered
CreditedStayDelivered(os, s) ==
  \A i \in 1..Len(os) :
    os[i].seller = s /\ os[i].isEarningsCredited =>
      os[i].orderStatus = "delivered"

\* C33: after a sequence of handlers run one at a time, without recompute,
\* in which the credited orders of a seller are still delivered, a recompute
\* would leave balance, totalEarnings, totalWithdrawn and pendingWithdrawals
\* as the handlers maintained them.
C33_RecomputeAgreesWithIncremental ==
  \A s \in Sellers :
    wallets[s].exists /\ CreditedStayDelivered(orders, s) =>
      Aggregates(RecomputeFrom(wallets[s], orders, withdrawals, s))
        = Aggregates(wallets[s])

\* C33 witness: a seller whose order was delivered and credited, with a
\* processed request and a rejected one behind it
C33_Witness ==
  \E s \in Sellers :
    /\ wallets[s].exists /\ CreditedStayDelivered(orders, s)
    /\ wallets[s].totalEarnings > 0
    /\ wallets[s].totalWithdrawn > 0
    /\ \E id \in WithdrawalIds :
         withdrawals[id].seller = s /\ withdrawals[id].status = "rejected"

\* C34: the log recomputeWalletForSeller writes is a running-balance chain
\* from 0 (each snapshot is the previous one plus a credit's amount or minus
\* a debit's), and the balance it stores is the last snapshot, 0 for an
\* empty log.
C34_RecomputedLogIsChain ==
  [][\A s \in Sellers :
       recomputeWalletForSeller(s) =>
         LET w == wallets'[s]
             n == Len(w.transactions)
         IN /\ ChainHolds(w.transactions)
            /\ w.balance = IF n = 0 THEN 0 ELSE w.transactions[n].balance]_vars

\* C34 witness: a rebuilt log of two credits, a settled debit and the pair
\* of a rejected request
C34_Witness ==
  \E s \in Sellers :
    LET w == wallets[s]
    IN /\ w = RecomputeFrom(w, orders, withdrawals, s)
       /\ Len(w.transactions) = 5
       /\ w.transactions[2].type = "credit"
       /\ w.transactions[2].balance = w.totalEarnings
       /\ w.totalWithdrawn > 0

(***************************************************************************)
(* Properties of the capture of a payment                                  *)
(***************************************************************************)
\* every requested order id is a stored order
AllExist(ids) == \A k \in 1..Len(ids) : ids[k] \in OrderIds

\* every requested order is an order of the user
AllOwned(ids, user) ==
  \A k \in 1..Len(ids) : ids[k] \in OrderIds => orders[ids[k]].user = user

\* C35: capturePaymentForOrders calls the gateway's capture only when the
\* signature is the HMAC of 'orderId|paymentId', every requested order
\* exists, every one belongs to the requesting user and the gateway order's
\* amount is within 2 paise of the orders' total, a failing check answering
\* before the later ones are made; orders are saved as paid only when the
\* capture was called and returned without error.  Stated for every request
\* that can be sent in a state.
C35_CaptureAfterChecks ==
  \A user \in Payers, ids \in OrderIdInputs, paymentId \in PaymentIds,
     signature \in Signatures, gateway \in Gateways :
    LET code == CaptureCheck(user, ids, paymentId, signature, gateway)
        called == CaptureCalled(user, ids, paymentId, signature, gateway)
        signed == signature = Hmac("rp1", paymentId)
        n == Len(FoundOrders(orders, ids, 1))
    IN /\ called =>
            /\ signed
            /\ AllExist(ids)
            /\ AllOwned(ids, user)
            /\ gateway.fetch = "order"
            /\ gateway.delta <= AmountTolerance
            /\ gateway.delta >= 0 - AmountTolerance
       /\ code = 404 => signed
       /\ code = 403 => signed /\ AllExist(ids)
       /\ \A failAt \in SaveFailures :
            SavesDone(code, n, failAt) > 0 =>
              called /\ gateway.capture = "ok"

\* C35 witness: after the cart of u1 was paid, a request for an order of u2
\* was refused as not owned, and the order is still unpaid
C35_Witness ==
  /\ resp.code = 403
  /\ resp.user = "u1"
  /\ orders[1].paymentStatus = "paid"
  /\ orders[2].paymentStatus = "paid"
  /\ orders[3].paymentResult # "pay1"
  /\ orders[3].paymentResult # "pay2"

(***************************************************************************)
(* Properties of interleaved withdrawal handlers                           *)
(***************************************************************************)
\* the amounts of a seller's requests whose hold has not been released
HeldAmount(s) == SumRequests(withdrawals, s, {"pending", "approved"}, 1)

\* no hold was released twice: the holds still counted cover the requests
\* still pending or approved, and the balance holds no amount refunded twice
ReleasedAtMostOnce(s) ==
  /\ wallets[s].pendingWithdrawals >= HeldAmount(s)
  /\ wallets[s].balance + wallets[s].totalWithdrawn + HeldAmount(s)
       <= wallets[s].totalEarnings

\* C36: when admin actions on the requests of a seller interleave, a request
\* still moves only pending->approved, pending->rejected or
\* approved->processed, and its hold is released at most once:
\* pendingWithdrawals is lowered by its amount and the balance refunded at
\* most once.
C36_AdminActionsSerialized ==
  [][/\ \A id \in WithdrawalIds :
          LegalTransition(withdrawals[id].status, withdrawals'[id].status)
     /\ \A s \in RaceSellers : ReleasedAtMostOnce(s)']_vars

\* C37: the withdrawal handlers that write a request and the wallet are
\* all-or-nothing: a handler whose wallet save fails (it answers 500) has
\* neither created a request nor changed the status of one, so that no
\* rejected or processed request keeps its hold counted.
C37_RequestAndWalletAtomic ==
  [][resp'.code = 500 =>
       /\ withdrawals' = withdrawals
       /\ \A id \in WithdrawalIds :
            withdrawals'[id].status \in {"rejected", "processed"} =>
              wallets'[withdrawals[id].seller].pendingWithdrawals
                <= SumRequests(withdrawals', withdrawals[id].seller,
                               {"pending", "approved"}, 1)]_vars

(***************************************************************************)
(* Properties of the credited flag                                         *)
(***************************************************************************)
\* C38: an order is stored with isEarningsCredited = true only together with
\* a credit entry for it in its seller's wallet: every step of
\* updateOrderStatus, adminResyncSellerWallet or adminResyncOrderToWallet
\* that sets the flag leaves such an entry, also when the wallet lookup, its
\* creation or addTransaction throws.
C38_FlagImpliesCreditEntry ==
  [][\A id \in OrderIds :
       ~orders[id].isEarningsCredited /\ orders'[id].isEarningsCredited =>
         CreditCount(wallets'[orders[id].seller], id) > 0]_vars

(***************************************************************************)
(* Properties of interleaved order creation                                *)
(***************************************************************************)
\* C39: when requests of one buyer under one idempotency key run at the
\* same time, one set of orders is stored and the sold counts are raised
\* once: a request that is answered 201 has stored its orders and raised the
\* sold counts only if no order of the buyer under the key was stored within
\* the window.
C39_OneOrderSetPerKey ==
  [][/\ resp'.code = 201 /\ resp'.key # "none"
     /\ orders' # orders \/ products' # products
     => Duplicates(orders, resp'.user, resp'.key, now) = {}]_vars

(***************************************************************************)
(* Properties of reconciliation interleaved with withdrawal handlers       *)
(***************************************************************************)
\* C40: when recomputeWalletForSeller interleaves with
\* createWithdrawalRequest, rejectWithdrawal or processWithdrawal of the
\* same seller, then once all of them have completed pendingWithdrawals is
\* the sum of the seller's pending and approved requests and balance is
\* totalEarnings minus totalWithdrawn minus pendingWithdrawals.
C40_ReconcileRaceConsistent ==
  (\A p \in Procs : calls[p].op = "idle") =>
    \A s \in RaceSellers :
      /\ wallets[s].pendingWithdrawals = HeldAmount(s)
      /\ wallets[s].balance =
           wallets[s].totalEarnings - wallets[s].totalWithdrawn
             - wallets[s].pendingWithdrawals

====
